---- MODULE Spec2Model ----
(***************************************************************************)
(* A model of src/app.py: the screenshot analysis operation, the result    *)
(* renderer, the follow-up conversation operation and the two UI handlers  *)
(* that thread their results through the session (the stored analysis and  *)
(* the conversation transcript).                                           *)
(*                                                                         *)
(* A Python str is a sequence of code points, each written as a one        *)
(* character string ("a", "\n") or, outside printable ASCII and for the    *)
(* grave accent, as "U+XXXX".                                              *)
(* Every other Python value is a record tagged with its type name.         *)
(***************************************************************************)
EXTENDS Integers, Sequences, FiniteSets, TLC

(***************************************************************************)
(* Python str operations                                                   *)
(***************************************************************************)
DIGITS == <<"0", "1", "2", "3", "4", "5", "6", "7", "8", "9">>
WHITESPACE == <<"\t", "\n", "U+000B", "U+000C", "U+000D", "U+001C", "U+001D", "U+001E", "U+001F", " ", "U+0085", "U+00A0", "U+1680", "U+2000", "U+2001", "U+2002", "U+2003", "U+2004", "U+2005", "U+2006", "U+2007", "U+2008", "U+2009", "U+200A", "U+2028", "U+2029", "U+202F", "U+205F", "U+3000">>
B64CHARS == <<"A", "B", "C", "D", "E", "F", "G", "H", "I", "J", "K", "L", "M", "N", "O", "P", "Q", "R", "S", "T", "U", "V", "W", "X", "Y", "Z", "a", "b", "c", "d", "e", "f", "g", "h", "i", "j", "k", "l", "m", "n", "o", "p", "q", "r", "s", "t", "u", "v", "w", "x", "y", "z", "0", "1", "2", "3", "4", "5", "6", "7", "8", "9", "+", "/">>
NONE_TEXT == <<"N", "o", "n", "e">>
ATTR_GET == <<"g", "e", "t">>
ATTR_ITEMS == <<"i", "t", "e", "m", "s">>
ATTR_TITLE == <<"t", "i", "t", "l", "e">>
ERR_OBJECT == <<"'", " ", "o", "b", "j", "e", "c", "t", " ", "h", "a", "s", " ", "n", "o", " ", "a", "t", "t", "r", "i", "b", "u", "t", "e", " ", "'">>
ERR_UNHASHABLE == <<"u", "n", "h", "a", "s", "h", "a", "b", "l", "e", " ", "t", "y", "p", "e", ":", " ", "'">>
ERR_FLOAT_STR == <<"c", "o", "u", "l", "d", " ", "n", "o", "t", " ", "c", "o", "n", "v", "e", "r", "t", " ", "s", "t", "r", "i", "n", "g", " ", "t", "o", " ", "f", "l", "o", "a", "t", ":", " ">>
ERR_FLOAT_ARG == <<"f", "l", "o", "a", "t", "(", ")", " ", "a", "r", "g", "u", "m", "e", "n", "t", " ", "m", "u", "s", "t", " ", "b", "e", " ", "a", " ", "s", "t", "r", "i", "n", "g", " ", "o", "r", " ", "a", " ", "r", "e", "a", "l", " ", "n", "u", "m", "b", "e", "r", ",", " ", "n", "o", "t", " ", "'">>
ERR_JSON_ARG == <<"t", "h", "e", " ", "J", "S", "O", "N", " ", "o", "b", "j", "e", "c", "t", " ", "m", "u", "s", "t", " ", "b", "e", " ", "s", "t", "r", ",", " ", "b", "y", "t", "e", "s", " ", "o", "r", " ", "b", "y", "t", "e", "a", "r", "r", "a", "y", ",", " ", "n", "o", "t", " ", "N", "o", "n", "e", "T", "y", "p", "e">>

Min(S) == CHOOSE x \in S : \A y \in S : x <= y

Max(S) == CHOOSE x \in S : \A y \in S : y <= x

\* s[i : i + len(sub)] == sub
MatchAt(s, sub, i) == i + Len(sub) - 1 <= Len(s) /\ \A k \in 1..Len(sub) : s[i + k - 1] = sub[k]

\* sub in s
Contains(s, sub) == \E i \in 1..(Len(s) - Len(sub) + 1) : MatchAt(s, sub, i)

\* s.startswith(p)
StartsWith(s, p) == MatchAt(s, p, 1)

\* s.find(sub) + 1: the first place sub occurs in s, 0 when it does not
Find(s, sub) == IF Contains(s, sub) THEN Min({i \in 1..(Len(s) - Len(sub) + 1) : MatchAt(s, sub, i)}) ELSE 0

\* the fields of lines of fixed-width fields
Fields(lines, width) ==
    UNION {{SubSeq(lines[n], width * k + 1, width * k + width) : k \in 0..(Len(lines[n]) \div width - 1)} :
              n \in 1..Len(lines)}

\* the code point a field of seven characters names: one character, six
\* ("U+XXXX") or seven ("U+XXXXX"), and spaces after it
CodePoint(field) ==
    IF SubSeq(field, 2, 2) = " " THEN SubSeq(field, 1, 1)
    ELSE IF SubSeq(field, 7, 7) = " " THEN SubSeq(field, 1, 6)
    ELSE field

\* the code points str.title() and str.lower() treat as cased (the Unicode
\* property Cased of the interpreter's character database)
CASED ==
    {CodePoint(field) : field \in Fields(
        <<"A      B      C      D      E      F      G      H      I      J      K      L      M      N      O      ",
          "P      Q      R      S      T      U      V      W      X      Y      Z      a      b      c      d      ",
          "e      f      g      h      i      j      k      l      m      n      o      p      q      r      s      ",
          "t      u      v      w      x      y      z      U+00AA U+00B5 U+00BA U+00C0 U+00C1 U+00C2 U+00C3 U+00C4 ",
          "U+00C5 U+00C6 U+00C7 U+00C8 U+00C9 U+00CA U+00CB U+00CC U+00CD U+00CE U+00CF U+00D0 U+00D1 U+00D2 U+00D3 ",
          "U+00D4 U+00D5 U+00D6 U+00D8 U+00D9 U+00DA U+00DB U+00DC U+00DD U+00DE U+00DF U+00E0 U+00E1 U+00E2 U+00E3 ",
          "U+00E4 U+00E5 U+00E6 U+00E7 U+00E8 U+00E9 U+00EA U+00EB U+00EC U+00ED U+00EE U+00EF U+00F0 U+00F1 U+00F2 ",
          "U+00F3 U+00F4 U+00F5 U+00F6 U+00F8 U+00F9 U+00FA U+00FB U+00FC U+00FD U+00FE U+00FF U+0100 U+0101 U+0102 ",
          "U+0103 U+0104 U+0105 U+0106 U+0107 U+0108 U+0109 U+010A U+010B U+010C U+010D U+010E U+010F U+0110 U+0111 ",
          "U+0112 U+0113 U+0114 U+0115 U+0116 U+0117 U+0118 U+0119 U+011A U+011B U+011C U+011D U+011E U+011F U+0120 ",
          "U+0121 U+0122 U+0123 U+0124 U+0125 U+0126 U+0127 U+0128 U+0129 U+012A U+012B U+012C U+012D U+012E U+012F ",
          "U+0130 U+0131 U+0132 U+0133 U+0134 U+0135 U+0136 U+0137 U+0138 U+0139 U+013A U+013B U+013C U+013D U+013E ",
          "U+013F U+0140 U+0141 U+0142 U+0143 U+0144 U+0145 U+0146 U+0147 U+0148 U+0149 U+014A U+014B U+014C U+014D ",
          "U+014E U+014F U+0150 U+0151 U+0152 U+0153 U+0154 U+0155 U+0156 U+0157 U+0158 U+0159 U+015A U+015B U+015C ",
          "U+015D U+015E U+015F U+0160 U+0161 U+0162 U+0163 U+0164 U+0165 U+0166 U+0167 U+0168 U+0169 U+016A U+016B ",
          "U+016C U+016D U+016E U+016F U+0170 U+0171 U+0172 U+0173 U+0174 U+0175 U+0176 U+0177 U+0178 U+0179 U+017A ",
          "U+017B U+017C U+017D U+017E U+017F U+0180 U+0181 U+0182 U+0183 U+0184 U+0185 U+0186 U+0187 U+0188 U+0189 ",
          "U+018A U+018B U+018C U+018D U+018E U+018F U+0190 U+0191 U+0192 U+0193 U+0194 U+0195 U+0196 U+0197 U+0198 ",
          "U+0199 U+019A U+019B U+019C U+019D U+019E U+019F U+01A0 U+01A1 U+01A2 U+01A3 U+01A4 U+01A5 U+01A6 U+01A7 ",
          "U+01A8 U+01A9 U+01AA U+01AB U+01AC U+01AD U+01AE U+01AF U+01B0 U+01B1 U+01B2 U+01B3 U+01B4 U+01B5 U+01B6 ",
          "U+01B7 U+01B8 U+01B9 U+01BA U+01BC U+01BD U+01BE U+01BF U+01C4 U+01C5 U+01C6 U+01C7 U+01C8 U+01C9 U+01CA ",
          "U+01CB U+01CC U+01CD U+01CE U+01CF U+01D0 U+01D1 U+01D2 U+01D3 U+01D4 U+01D5 U+01D6 U+01D7 U+01D8 U+01D9 ",
          "U+01DA U+01DB U+01DC U+01DD U+01DE U+01DF U+01E0 U+01E1 U+01E2 U+01E3 U+01E4 U+01E5 U+01E6 U+01E7 U+01E8 ",
          "U+01E9 U+01EA U+01EB U+01EC U+01ED U+01EE U+01EF U+01F0 U+01F1 U+01F2 U+01F3 U+01F4 U+01F5 U+01F6 U+01F7 ",
          "U+01F8 U+01F9 U+01FA U+01FB U+01FC U+01FD U+01FE U+01FF U+0200 U+0201 U+0202 U+0203 U+0204 U+0205 U+0206 ",
          "U+0207 U+0208 U+0209 U+020A U+020B U+020C U+020D U+020E U+020F U+0210 U+0211 U+0212 U+0213 U+0214 U+0215 ",
          "U+0216 U+0217 U+0218 U+0219 U+021A U+021B U+021C U+021D U+021E U+021F U+0220 U+0221 U+0222 U+0223 U+0224 ",
          "U+0225 U+0226 U+0227 U+0228 U+0229 U+022A U+022B U+022C U+022D U+022E U+022F U+0230 U+0231 U+0232 U+0233 ",
          "U+0234 U+0235 U+0236 U+0237 U+0238 U+0239 U+023A U+023B U+023C U+023D U+023E U+023F U+0240 U+0241 U+0242 ",
          "U+0243 U+0244 U+0245 U+0246 U+0247 U+0248 U+0249 U+024A U+024B U+024C U+024D U+024E U+024F U+0250 U+0251 ",
          "U+0252 U+0253 U+0254 U+0255 U+0256 U+0257 U+0258 U+0259 U+025A U+025B U+025C U+025D U+025E U+025F U+0260 ",
          "U+0261 U+0262 U+0263 U+0264 U+0265 U+0266 U+0267 U+0268 U+0269 U+026A U+026B U+026C U+026D U+026E U+026F ",
          "U+0270 U+0271 U+0272 U+0273 U+0274 U+0275 U+0276 U+0277 U+0278 U+0279 U+027A U+027B U+027C U+027D U+027E ",
          "U+027F U+0280 U+0281 U+0282 U+0283 U+0284 U+0285 U+0286 U+0287 U+0288 U+0289 U+028A U+028B U+028C U+028D ",
          "U+028E U+028F U+0290 U+0291 U+0292 U+0293 U+0295 U+0296 U+0297 U+0298 U+0299 U+029A U+029B U+029C U+029D ",
          "U+029E U+029F U+02A0 U+02A1 U+02A2 U+02A3 U+02A4 U+02A5 U+02A6 U+02A7 U+02A8 U+02A9 U+02AA U+02AB U+02AC ",
          "U+02AD U+02AE U+02AF U+02B0 U+02B1 U+02B2 U+02B3 U+02B4 U+02B5 U+02B6 U+02B7 U+02B8 U+02C0 U+02C1 U+02E0 ",
          "U+02E1 U+02E2 U+02E3 U+02E4 U+0345 U+0370 U+0371 U+0372 U+0373 U+0376 U+0377 U+037A U+037B U+037C U+037D ",
          "U+037F U+0386 U+0388 U+0389 U+038A U+038C U+038E U+038F U+0390 U+0391 U+0392 U+0393 U+0394 U+0395 U+0396 ",
          "U+0397 U+0398 U+0399 U+039A U+039B U+039C U+039D U+039E U+039F U+03A0 U+03A1 U+03A3 U+03A4 U+03A5 U+03A6 ",
          "U+03A7 U+03A8 U+03A9 U+03AA U+03AB U+03AC U+03AD U+03AE U+03AF U+03B0 U+03B1 U+03B2 U+03B3 U+03B4 U+03B5 ",
          "U+03B6 U+03B7 U+03B8 U+03B9 U+03BA U+03BB U+03BC U+03BD U+03BE U+03BF U+03C0 U+03C1 U+03C2 U+03C3 U+03C4 ",
          "U+03C5 U+03C6 U+03C7 U+03C8 U+03C9 U+03CA U+03CB U+03CC U+03CD U+03CE U+03CF U+03D0 U+03D1 U+03D2 U+03D3 ",
          "U+03D4 U+03D5 U+03D6 U+03D7 U+03D8 U+03D9 U+03DA U+03DB U+03DC U+03DD U+03DE U+03DF U+03E0 U+03E1 U+03E2 ",
          "U+03E3 U+03E4 U+03E5 U+03E6 U+03E7 U+03E8 U+03E9 U+03EA U+03EB U+03EC U+03ED U+03EE U+03EF U+03F0 U+03F1 ",
          "U+03F2 U+03F3 U+03F4 U+03F5 U+03F7 U+03F8 U+03F9 U+03FA U+03FB U+03FC U+03FD U+03FE U+03FF U+0400 U+0401 ",
          "U+0402 U+0403 U+0404 U+0405 U+0406 U+0407 U+0408 U+0409 U+040A U+040B U+040C U+040D U+040E U+040F U+0410 ",
          "U+0411 U+0412 U+0413 U+0414 U+0415 U+0416 U+0417 U+0418 U+0419 U+041A U+041B U+041C U+041D U+041E U+041F ",
          "U+0420 U+0421 U+0422 U+0423 U+0424 U+0425 U+0426 U+0427 U+0428 U+0429 U+042A U+042B U+042C U+042D U+042E ",
          "U+042F U+0430 U+0431 U+0432 U+0433 U+0434 U+0435 U+0436 U+0437 U+0438 U+0439 U+043A U+043B U+043C U+043D ",
          "U+043E U+043F U+0440 U+0441 U+0442 U+0443 U+0444 U+0445 U+0446 U+0447 U+0448 U+0449 U+044A U+044B U+044C ",
          "U+044D U+044E U+044F U+0450 U+0451 U+0452 U+0453 U+0454 U+0455 U+0456 U+0457 U+0458 U+0459 U+045A U+045B ",
          "U+045C U+045D U+045E U+045F U+0460 U+0461 U+0462 U+0463 U+0464 U+0465 U+0466 U+0467 U+0468 U+0469 U+046A ",
          "U+046B U+046C U+046D U+046E U+046F U+0470 U+0471 U+0472 U+0473 U+0474 U+0475 U+0476 U+0477 U+0478 U+0479 ",
          "U+047A U+047B U+047C U+047D U+047E U+047F U+0480 U+0481 U+048A U+048B U+048C U+048D U+048E U+048F U+0490 ",
          "U+0491 U+0492 U+0493 U+0494 U+0495 U+0496 U+0497 U+0498 U+0499 U+049A U+049B U+049C U+049D U+049E U+049F ",
          "U+04A0 U+04A1 U+04A2 U+04A3 U+04A4 U+04A5 U+04A6 U+04A7 U+04A8 U+04A9 U+04AA U+04AB U+04AC U+04AD U+04AE ",
          "U+04AF U+04B0 U+04B1 U+04B2 U+04B3 U+04B4 U+04B5 U+04B6 U+04B7 U+04B8 U+04B9 U+04BA U+04BB U+04BC U+04BD ",
          "U+04BE U+04BF U+04C0 U+04C1 U+04C2 U+04C3 U+04C4 U+04C5 U+04C6 U+04C7 U+04C8 U+04C9 U+04CA U+04CB U+04CC ",
          "U+04CD U+04CE U+04CF U+04D0 U+04D1 U+04D2 U+04D3 U+04D4 U+04D5 U+04D6 U+04D7 U+04D8 U+04D9 U+04DA U+04DB ",
          "U+04DC U+04DD U+04DE U+04DF U+04E0 U+04E1 U+04E2 U+04E3 U+04E4 U+04E5 U+04E6 U+04E7 U+04E8 U+04E9 U+04EA ",
          "U+04EB U+04EC U+04ED U+04EE U+04EF U+04F0 U+04F1 U+04F2 U+04F3 U+04F4 U+04F5 U+04F6 U+04F7 U+04F8 U+04F9 ",
          "U+04FA U+04FB U+04FC U+04FD U+04FE U+04FF U+0500 U+0501 U+0502 U+0503 U+0504 U+0505 U+0506 U+0507 U+0508 ",
          "U+0509 U+050A U+050B U+050C U+050D U+050E U+050F U+0510 U+0511 U+0512 U+0513 U+0514 U+0515 U+0516 U+0517 ",
          "U+0518 U+0519 U+051A U+051B U+051C U+051D U+051E U+051F U+0520 U+0521 U+0522 U+0523 U+0524 U+0525 U+0526 ",
          "U+0527 U+0528 U+0529 U+052A U+052B U+052C U+052D U+052E U+052F U+0531 U+0532 U+0533 U+0534 U+0535 U+0536 ",
          "U+0537 U+0538 U+0539 U+053A U+053B U+053C U+053D U+053E U+053F U+0540 U+0541 U+0542 U+0543 U+0544 U+0545 ",
          "U+0546 U+0547 U+0548 U+0549 U+054A U+054B U+054C U+054D U+054E U+054F U+0550 U+0551 U+0552 U+0553 U+0554 ",
          "U+0555 U+0556 U+0560 U+0561 U+0562 U+0563 U+0564 U+0565 U+0566 U+0567 U+0568 U+0569 U+056A U+056B U+056C ",
          "U+056D U+056E U+056F U+0570 U+0571 U+0572 U+0573 U+0574 U+0575 U+0576 U+0577 U+0578 U+0579 U+057A U+057B ",
          "U+057C U+057D U+057E U+057F U+0580 U+0581 U+0582 U+0583 U+0584 U+0585 U+0586 U+0587 U+0588 U+10A0 U+10A1 ",
          "U+10A2 U+10A3 U+10A4 U+10A5 U+10A6 U+10A7 U+10A8 U+10A9 U+10AA U+10AB U+10AC U+10AD U+10AE U+10AF U+10B0 ",
          "U+10B1 U+10B2 U+10B3 U+10B4 U+10B5 U+10B6 U+10B7 U+10B8 U+10B9 U+10BA U+10BB U+10BC U+10BD U+10BE U+10BF ",
          "U+10C0 U+10C1 U+10C2 U+10C3 U+10C4 U+10C5 U+10C7 U+10CD U+10D0 U+10D1 U+10D2 U+10D3 U+10D4 U+10D5 U+10D6 ",
          "U+10D7 U+10D8 U+10D9 U+10DA U+10DB U+10DC U+10DD U+10DE U+10DF U+10E0 U+10E1 U+10E2 U+10E3 U+10E4 U+10E5 ",
          "U+10E6 U+10E7 U+10E8 U+10E9 U+10EA U+10EB U+10EC U+10ED U+10EE U+10EF U+10F0 U+10F1 U+10F2 U+10F3 U+10F4 ",
          "U+10F5 U+10F6 U+10F7 U+10F8 U+10F9 U+10FA U+10FD U+10FE U+10FF U+13A0 U+13A1 U+13A2 U+13A3 U+13A4 U+13A5 ",
          "U+13A6 U+13A7 U+13A8 U+13A9 U+13AA U+13AB U+13AC U+13AD U+13AE U+13AF U+13B0 U+13B1 U+13B2 U+13B3 U+13B4 ",
          "U+13B5 U+13B6 U+13B7 U+13B8 U+13B9 U+13BA U+13BB U+13BC U+13BD U+13BE U+13BF U+13C0 U+13C1 U+13C2 U+13C3 ",
          "U+13C4 U+13C5 U+13C6 U+13C7 U+13C8 U+13C9 U+13CA U+13CB U+13CC U+13CD U+13CE U+13CF U+13D0 U+13D1 U+13D2 ",
          "U+13D3 U+13D4 U+13D5 U+13D6 U+13D7 U+13D8 U+13D9 U+13DA U+13DB U+13DC U+13DD U+13DE U+13DF U+13E0 U+13E1 ",
          "U+13E2 U+13E3 U+13E4 U+13E5 U+13E6 U+13E7 U+13E8 U+13E9 U+13EA U+13EB U+13EC U+13ED U+13EE U+13EF U+13F0 ",
          "U+13F1 U+13F2 U+13F3 U+13F4 U+13F5 U+13F8 U+13F9 U+13FA U+13FB U+13FC U+13FD U+1C80 U+1C81 U+1C82 U+1C83 ",
          "U+1C84 U+1C85 U+1C86 U+1C87 U+1C88 U+1C90 U+1C91 U+1C92 U+1C93 U+1C94 U+1C95 U+1C96 U+1C97 U+1C98 U+1C99 ",
          "U+1C9A U+1C9B U+1C9C U+1C9D U+1C9E U+1C9F U+1CA0 U+1CA1 U+1CA2 U+1CA3 U+1CA4 U+1CA5 U+1CA6 U+1CA7 U+1CA8 ",
          "U+1CA9 U+1CAA U+1CAB U+1CAC U+1CAD U+1CAE U+1CAF U+1CB0 U+1CB1 U+1CB2 U+1CB3 U+1CB4 U+1CB5 U+1CB6 U+1CB7 ",
          "U+1CB8 U+1CB9 U+1CBA U+1CBD U+1CBE U+1CBF U+1D00 U+1D01 U+1D02 U+1D03 U+1D04 U+1D05 U+1D06 U+1D07 U+1D08 ",
          "U+1D09 U+1D0A U+1D0B U+1D0C U+1D0D U+1D0E U+1D0F U+1D10 U+1D11 U+1D12 U+1D13 U+1D14 U+1D15 U+1D16 U+1D17 ",
          "U+1D18 U+1D19 U+1D1A U+1D1B U+1D1C U+1D1D U+1D1E U+1D1F U+1D20 U+1D21 U+1D22 U+1D23 U+1D24 U+1D25 U+1D26 ",
          "U+1D27 U+1D28 U+1D29 U+1D2A U+1D2B U+1D2C U+1D2D U+1D2E U+1D2F U+1D30 U+1D31 U+1D32 U+1D33 U+1D34 U+1D35 ",
          "U+1D36 U+1D37 U+1D38 U+1D39 U+1D3A U+1D3B U+1D3C U+1D3D U+1D3E U+1D3F U+1D40 U+1D41 U+1D42 U+1D43 U+1D44 ",
          "U+1D45 U+1D46 U+1D47 U+1D48 U+1D49 U+1D4A U+1D4B U+1D4C U+1D4D U+1D4E U+1D4F U+1D50 U+1D51 U+1D52 U+1D53 ",
          "U+1D54 U+1D55 U+1D56 U+1D57 U+1D58 U+1D59 U+1D5A U+1D5B U+1D5C U+1D5D U+1D5E U+1D5F U+1D60 U+1D61 U+1D62 ",
          "U+1D63 U+1D64 U+1D65 U+1D66 U+1D67 U+1D68 U+1D69 U+1D6A U+1D6B U+1D6C U+1D6D U+1D6E U+1D6F U+1D70 U+1D71 ",
          "U+1D72 U+1D73 U+1D74 U+1D75 U+1D76 U+1D77 U+1D78 U+1D79 U+1D7A U+1D7B U+1D7C U+1D7D U+1D7E U+1D7F U+1D80 ",
          "U+1D81 U+1D82 U+1D83 U+1D84 U+1D85 U+1D86 U+1D87 U+1D88 U+1D89 U+1D8A U+1D8B U+1D8C U+1D8D U+1D8E U+1D8F ",
          "U+1D90 U+1D91 U+1D92 U+1D93 U+1D94 U+1D95 U+1D96 U+1D97 U+1D98 U+1D99 U+1D9A U+1D9B U+1D9C U+1D9D U+1D9E ",
          "U+1D9F U+1DA0 U+1DA1 U+1DA2 U+1DA3 U+1DA4 U+1DA5 U+1DA6 U+1DA7 U+1DA8 U+1DA9 U+1DAA U+1DAB U+1DAC U+1DAD ",
          "U+1DAE U+1DAF U+1DB0 U+1DB1 U+1DB2 U+1DB3 U+1DB4 U+1DB5 U+1DB6 U+1DB7 U+1DB8 U+1DB9 U+1DBA U+1DBB U+1DBC ",
          "U+1DBD U+1DBE U+1DBF U+1E00 U+1E01 U+1E02 U+1E03 U+1E04 U+1E05 U+1E06 U+1E07 U+1E08 U+1E09 U+1E0A U+1E0B ",
          "U+1E0C U+1E0D U+1E0E U+1E0F U+1E10 U+1E11 U+1E12 U+1E13 U+1E14 U+1E15 U+1E16 U+1E17 U+1E18 U+1E19 U+1E1A ",
          "U+1E1B U+1E1C U+1E1D U+1E1E U+1E1F U+1E20 U+1E21 U+1E22 U+1E23 U+1E24 U+1E25 U+1E26 U+1E27 U+1E28 U+1E29 ",
          "U+1E2A U+1E2B U+1E2C U+1E2D U+1E2E U+1E2F U+1E30 U+1E31 U+1E32 U+1E33 U+1E34 U+1E35 U+1E36 U+1E37 U+1E38 ",
          "U+1E39 U+1E3A U+1E3B U+1E3C U+1E3D U+1E3E U+1E3F U+1E40 U+1E41 U+1E42 U+1E43 U+1E44 U+1E45 U+1E46 U+1E47 ",
          "U+1E48 U+1E49 U+1E4A U+1E4B U+1E4C U+1E4D U+1E4E U+1E4F U+1E50 U+1E51 U+1E52 U+1E53 U+1E54 U+1E55 U+1E56 ",
          "U+1E57 U+1E58 U+1E59 U+1E5A U+1E5B U+1E5C U+1E5D U+1E5E U+1E5F U+1E60 U+1E61 U+1E62 U+1E63 U+1E64 U+1E65 ",
          "U+1E66 U+1E67 U+1E68 U+1E69 U+1E6A U+1E6B U+1E6C U+1E6D U+1E6E U+1E6F U+1E70 U+1E71 U+1E72 U+1E73 U+1E74 ",
          "U+1E75 U+1E76 U+1E77 U+1E78 U+1E79 U+1E7A U+1E7B U+1E7C U+1E7D U+1E7E U+1E7F U+1E80 U+1E81 U+1E82 U+1E83 ",
          "U+1E84 U+1E85 U+1E86 U+1E87 U+1E88 U+1E89 U+1E8A U+1E8B U+1E8C U+1E8D U+1E8E U+1E8F U+1E90 U+1E91 U+1E92 ",
          "U+1E93 U+1E94 U+1E95 U+1E96 U+1E97 U+1E98 U+1E99 U+1E9A U+1E9B U+1E9C U+1E9D U+1E9E U+1E9F U+1EA0 U+1EA1 ",
          "U+1EA2 U+1EA3 U+1EA4 U+1EA5 U+1EA6 U+1EA7 U+1EA8 U+1EA9 U+1EAA U+1EAB U+1EAC U+1EAD U+1EAE U+1EAF U+1EB0 ",
          "U+1EB1 U+1EB2 U+1EB3 U+1EB4 U+1EB5 U+1EB6 U+1EB7 U+1EB8 U+1EB9 U+1EBA U+1EBB U+1EBC U+1EBD U+1EBE U+1EBF ",
          "U+1EC0 U+1EC1 U+1EC2 U+1EC3 U+1EC4 U+1EC5 U+1EC6 U+1EC7 U+1EC8 U+1EC9 U+1ECA U+1ECB U+1ECC U+1ECD U+1ECE ",
          "U+1ECF U+1ED0 U+1ED1 U+1ED2 U+1ED3 U+1ED4 U+1ED5 U+1ED6 U+1ED7 U+1ED8 U+1ED9 U+1EDA U+1EDB U+1EDC U+1EDD ",
          "U+1EDE U+1EDF U+1EE0 U+1EE1 U+1EE2 U+1EE3 U+1EE4 U+1EE5 U+1EE6 U+1EE7 U+1EE8 U+1EE9 U+1EEA U+1EEB U+1EEC ",
          "U+1EED U+1EEE U+1EEF U+1EF0 U+1EF1 U+1EF2 U+1EF3 U+1EF4 U+1EF5 U+1EF6 U+1EF7 U+1EF8 U+1EF9 U+1EFA U+1EFB ",
          "U+1EFC U+1EFD U+1EFE U+1EFF U+1F00 U+1F01 U+1F02 U+1F03 U+1F04 U+1F05 U+1F06 U+1F07 U+1F08 U+1F09 U+1F0A ",
          "U+1F0B U+1F0C U+1F0D U+1F0E U+1F0F U+1F10 U+1F11 U+1F12 U+1F13 U+1F14 U+1F15 U+1F18 U+1F19 U+1F1A U+1F1B ",
          "U+1F1C U+1F1D U+1F20 U+1F21 U+1F22 U+1F23 U+1F24 U+1F25 U+1F26 U+1F27 U+1F28 U+1F29 U+1F2A U+1F2B U+1F2C ",
          "U+1F2D U+1F2E U+1F2F U+1F30 U+1F31 U+1F32 U+1F33 U+1F34 U+1F35 U+1F36 U+1F37 U+1F38 U+1F39 U+1F3A U+1F3B ",
          "U+1F3C U+1F3D U+1F3E U+1F3F U+1F40 U+1F41 U+1F42 U+1F43 U+1F44 U+1F45 U+1F48 U+1F49 U+1F4A U+1F4B U+1F4C ",
          "U+1F4D U+1F50 U+1F51 U+1F52 U+1F53 U+1F54 U+1F55 U+1F56 U+1F57 U+1F59 U+1F5B U+1F5D U+1F5F U+1F60 U+1F61 ",
          "U+1F62 U+1F63 U+1F64 U+1F65 U+1F66 U+1F67 U+1F68 U+1F69 U+1F6A U+1F6B U+1F6C U+1F6D U+1F6E U+1F6F U+1F70 ",
          "U+1F71 U+1F72 U+1F73 U+1F74 U+1F75 U+1F76 U+1F77 U+1F78 U+1F79 U+1F7A U+1F7B U+1F7C U+1F7D U+1F80 U+1F81 ",
          "U+1F82 U+1F83 U+1F84 U+1F85 U+1F86 U+1F87 U+1F88 U+1F89 U+1F8A U+1F8B U+1F8C U+1F8D U+1F8E U+1F8F U+1F90 ",
          "U+1F91 U+1F92 U+1F93 U+1F94 U+1F95 U+1F96 U+1F97 U+1F98 U+1F99 U+1F9A U+1F9B U+1F9C U+1F9D U+1F9E U+1F9F ",
          "U+1FA0 U+1FA1 U+1FA2 U+1FA3 U+1FA4 U+1FA5 U+1FA6 U+1FA7 U+1FA8 U+1FA9 U+1FAA U+1FAB U+1FAC U+1FAD U+1FAE ",
          "U+1FAF U+1FB0 U+1FB1 U+1FB2 U+1FB3 U+1FB4 U+1FB6 U+1FB7 U+1FB8 U+1FB9 U+1FBA U+1FBB U+1FBC U+1FBE U+1FC2 ",
          "U+1FC3 U+1FC4 U+1FC6 U+1FC7 U+1FC8 U+1FC9 U+1FCA U+1FCB U+1FCC U+1FD0 U+1FD1 U+1FD2 U+1FD3 U+1FD6 U+1FD7 ",
          "U+1FD8 U+1FD9 U+1FDA U+1FDB U+1FE0 U+1FE1 U+1FE2 U+1FE3 U+1FE4 U+1FE5 U+1FE6 U+1FE7 U+1FE8 U+1FE9 U+1FEA ",
          "U+1FEB U+1FEC U+1FF2 U+1FF3 U+1FF4 U+1FF6 U+1FF7 U+1FF8 U+1FF9 U+1FFA U+1FFB U+1FFC U+2071 U+207F U+2090 ",
          "U+2091 U+2092 U+2093 U+2094 U+2095 U+2096 U+2097 U+2098 U+2099 U+209A U+209B U+209C U+2102 U+2107 U+210A ",
          "U+210B U+210C U+210D U+210E U+210F U+2110 U+2111 U+2112 U+2113 U+2115 U+2119 U+211A U+211B U+211C U+211D ",
          "U+2124 U+2126 U+2128 U+212A U+212B U+212C U+212D U+212F U+2130 U+2131 U+2132 U+2133 U+2134 U+2139 U+213C ",
          "U+213D U+213E U+213F U+2145 U+2146 U+2147 U+2148 U+2149 U+214E U+2160 U+2161 U+2162 U+2163 U+2164 U+2165 ",
          "U+2166 U+2167 U+2168 U+2169 U+216A U+216B U+216C U+216D U+216E U+216F U+2170 U+2171 U+2172 U+2173 U+2174 ",
          "U+2175 U+2176 U+2177 U+2178 U+2179 U+217A U+217B U+217C U+217D U+217E U+217F U+2183 U+2184 U+24B6 U+24B7 ",
          "U+24B8 U+24B9 U+24BA U+24BB U+24BC U+24BD U+24BE U+24BF U+24C0 U+24C1 U+24C2 U+24C3 U+24C4 U+24C5 U+24C6 ",
          "U+24C7 U+24C8 U+24C9 U+24CA U+24CB U+24CC U+24CD U+24CE U+24CF U+24D0 U+24D1 U+24D2 U+24D3 U+24D4 U+24D5 ",
          "U+24D6 U+24D7 U+24D8 U+24D9 U+24DA U+24DB U+24DC U+24DD U+24DE U+24DF U+24E0 U+24E1 U+24E2 U+24E3 U+24E4 ",
          "U+24E5 U+24E6 U+24E7 U+24E8 U+24E9 U+2C00 U+2C01 U+2C02 U+2C03 U+2C04 U+2C05 U+2C06 U+2C07 U+2C08 U+2C09 ",
          "U+2C0A U+2C0B U+2C0C U+2C0D U+2C0E U+2C0F U+2C10 U+2C11 U+2C12 U+2C13 U+2C14 U+2C15 U+2C16 U+2C17 U+2C18 ",
          "U+2C19 U+2C1A U+2C1B U+2C1C U+2C1D U+2C1E U+2C1F U+2C20 U+2C21 U+2C22 U+2C23 U+2C24 U+2C25 U+2C26 U+2C27 ",
          "U+2C28 U+2C29 U+2C2A U+2C2B U+2C2C U+2C2D U+2C2E U+2C2F U+2C30 U+2C31 U+2C32 U+2C33 U+2C34 U+2C35 U+2C36 ",
          "U+2C37 U+2C38 U+2C39 U+2C3A U+2C3B U+2C3C U+2C3D U+2C3E U+2C3F U+2C40 U+2C41 U+2C42 U+2C43 U+2C44 U+2C45 ",
          "U+2C46 U+2C47 U+2C48 U+2C49 U+2C4A U+2C4B U+2C4C U+2C4D U+2C4E U+2C4F U+2C50 U+2C51 U+2C52 U+2C53 U+2C54 ",
          "U+2C55 U+2C56 U+2C57 U+2C58 U+2C59 U+2C5A U+2C5B U+2C5C U+2C5D U+2C5E U+2C5F U+2C60 U+2C61 U+2C62 U+2C63 ",
          "U+2C64 U+2C65 U+2C66 U+2C67 U+2C68 U+2C69 U+2C6A U+2C6B U+2C6C U+2C6D U+2C6E U+2C6F U+2C70 U+2C71 U+2C72 ",
          "U+2C73 U+2C74 U+2C75 U+2C76 U+2C77 U+2C78 U+2C79 U+2C7A U+2C7B U+2C7C U+2C7D U+2C7E U+2C7F U+2C80 U+2C81 ",
          "U+2C82 U+2C83 U+2C84 U+2C85 U+2C86 U+2C87 U+2C88 U+2C89 U+2C8A U+2C8B U+2C8C U+2C8D U+2C8E U+2C8F U+2C90 ",
          "U+2C91 U+2C92 U+2C93 U+2C94 U+2C95 U+2C96 U+2C97 U+2C98 U+2C99 U+2C9A U+2C9B U+2C9C U+2C9D U+2C9E U+2C9F ",
          "U+2CA0 U+2CA1 U+2CA2 U+2CA3 U+2CA4 U+2CA5 U+2CA6 U+2CA7 U+2CA8 U+2CA9 U+2CAA U+2CAB U+2CAC U+2CAD U+2CAE ",
          "U+2CAF U+2CB0 U+2CB1 U+2CB2 U+2CB3 U+2CB4 U+2CB5 U+2CB6 U+2CB7 U+2CB8 U+2CB9 U+2CBA U+2CBB U+2CBC U+2CBD ",
          "U+2CBE U+2CBF U+2CC0 U+2CC1 U+2CC2 U+2CC3 U+2CC4 U+2CC5 U+2CC6 U+2CC7 U+2CC8 U+2CC9 U+2CCA U+2CCB U+2CCC ",
          "U+2CCD U+2CCE U+2CCF U+2CD0 U+2CD1 U+2CD2 U+2CD3 U+2CD4 U+2CD5 U+2CD6 U+2CD7 U+2CD8 U+2CD9 U+2CDA U+2CDB ",
          "U+2CDC U+2CDD U+2CDE U+2CDF U+2CE0 U+2CE1 U+2CE2 U+2CE3 U+2CE4 U+2CEB U+2CEC U+2CED U+2CEE U+2CF2 U+2CF3 ",
          "U+2D00 U+2D01 U+2D02 U+2D03 U+2D04 U+2D05 U+2D06 U+2D07 U+2D08 U+2D09 U+2D0A U+2D0B U+2D0C U+2D0D U+2D0E ",
          "U+2D0F U+2D10 U+2D11 U+2D12 U+2D13 U+2D14 U+2D15 U+2D16 U+2D17 U+2D18 U+2D19 U+2D1A U+2D1B U+2D1C U+2D1D ",
          "U+2D1E U+2D1F U+2D20 U+2D21 U+2D22 U+2D23 U+2D24 U+2D25 U+2D27 U+2D2D U+A640 U+A641 U+A642 U+A643 U+A644 ",
          "U+A645 U+A646 U+A647 U+A648 U+A649 U+A64A U+A64B U+A64C U+A64D U+A64E U+A64F U+A650 U+A651 U+A652 U+A653 ",
          "U+A654 U+A655 U+A656 U+A657 U+A658 U+A659 U+A65A U+A65B U+A65C U+A65D U+A65E U+A65F U+A660 U+A661 U+A662 ",
          "U+A663 U+A664 U+A665 U+A666 U+A667 U+A668 U+A669 U+A66A U+A66B U+A66C U+A66D U+A680 U+A681 U+A682 U+A683 ",
          "U+A684 U+A685 U+A686 U+A687 U+A688 U+A689 U+A68A U+A68B U+A68C U+A68D U+A68E U+A68F U+A690 U+A691 U+A692 ",
          "U+A693 U+A694 U+A695 U+A696 U+A697 U+A698 U+A699 U+A69A U+A69B U+A69C U+A69D U+A722 U+A723 U+A724 U+A725 ",
          "U+A726 U+A727 U+A728 U+A729 U+A72A U+A72B U+A72C U+A72D U+A72E U+A72F U+A730 U+A731 U+A732 U+A733 U+A734 ",
          "U+A735 U+A736 U+A737 U+A738 U+A739 U+A73A U+A73B U+A73C U+A73D U+A73E U+A73F U+A740 U+A741 U+A742 U+A743 ",
          "U+A744 U+A745 U+A746 U+A747 U+A748 U+A749 U+A74A U+A74B U+A74C U+A74D U+A74E U+A74F U+A750 U+A751 U+A752 ",
          "U+A753 U+A754 U+A755 U+A756 U+A757 U+A758 U+A759 U+A75A U+A75B U+A75C U+A75D U+A75E U+A75F U+A760 U+A761 ",
          "U+A762 U+A763 U+A764 U+A765 U+A766 U+A767 U+A768 U+A769 U+A76A U+A76B U+A76C U+A76D U+A76E U+A76F U+A770 ",
          "U+A771 U+A772 U+A773 U+A774 U+A775 U+A776 U+A777 U+A778 U+A779 U+A77A U+A77B U+A77C U+A77D U+A77E U+A77F ",
          "U+A780 U+A781 U+A782 U+A783 U+A784 U+A785 U+A786 U+A787 U+A78B U+A78C U+A78D U+A78E U+A790 U+A791 U+A792 ",
          "U+A793 U+A794 U+A795 U+A796 U+A797 U+A798 U+A799 U+A79A U+A79B U+A79C U+A79D U+A79E U+A79F U+A7A0 U+A7A1 ",
          "U+A7A2 U+A7A3 U+A7A4 U+A7A5 U+A7A6 U+A7A7 U+A7A8 U+A7A9 U+A7AA U+A7AB U+A7AC U+A7AD U+A7AE U+A7AF U+A7B0 ",
          "U+A7B1 U+A7B2 U+A7B3 U+A7B4 U+A7B5 U+A7B6 U+A7B7 U+A7B8 U+A7B9 U+A7BA U+A7BB U+A7BC U+A7BD U+A7BE U+A7BF ",
          "U+A7C0 U+A7C1 U+A7C2 U+A7C3 U+A7C4 U+A7C5 U+A7C6 U+A7C7 U+A7C8 U+A7C9 U+A7CA U+A7D0 U+A7D1 U+A7D3 U+A7D5 ",
          "U+A7D6 U+A7D7 U+A7D8 U+A7D9 U+A7F5 U+A7F6 U+A7F8 U+A7F9 U+A7FA U+AB30 U+AB31 U+AB32 U+AB33 U+AB34 U+AB35 ",
          "U+AB36 U+AB37 U+AB38 U+AB39 U+AB3A U+AB3B U+AB3C U+AB3D U+AB3E U+AB3F U+AB40 U+AB41 U+AB42 U+AB43 U+AB44 ",
          "U+AB45 U+AB46 U+AB47 U+AB48 U+AB49 U+AB4A U+AB4B U+AB4C U+AB4D U+AB4E U+AB4F U+AB50 U+AB51 U+AB52 U+AB53 ",
          "U+AB54 U+AB55 U+AB56 U+AB57 U+AB58 U+AB59 U+AB5A U+AB5C U+AB5D U+AB5E U+AB5F U+AB60 U+AB61 U+AB62 U+AB63 ",
          "U+AB64 U+AB65 U+AB66 U+AB67 U+AB68 U+AB70 U+AB71 U+AB72 U+AB73 U+AB74 U+AB75 U+AB76 U+AB77 U+AB78 U+AB79 ",
          "U+AB7A U+AB7B U+AB7C U+AB7D U+AB7E U+AB7F U+AB80 U+AB81 U+AB82 U+AB83 U+AB84 U+AB85 U+AB86 U+AB87 U+AB88 ",
          "U+AB89 U+AB8A U+AB8B U+AB8C U+AB8D U+AB8E U+AB8F U+AB90 U+AB91 U+AB92 U+AB93 U+AB94 U+AB95 U+AB96 U+AB97 ",
          "U+AB98 U+AB99 U+AB9A U+AB9B U+AB9C U+AB9D U+AB9E U+AB9F U+ABA0 U+ABA1 U+ABA2 U+ABA3 U+ABA4 U+ABA5 U+ABA6 ",
          "U+ABA7 U+ABA8 U+ABA9 U+ABAA U+ABAB U+ABAC U+ABAD U+ABAE U+ABAF U+ABB0 U+ABB1 U+ABB2 U+ABB3 U+ABB4 U+ABB5 ",
          "U+ABB6 U+ABB7 U+ABB8 U+ABB9 U+ABBA U+ABBB U+ABBC U+ABBD U+ABBE U+ABBF U+FB00 U+FB01 U+FB02 U+FB03 U+FB04 ",
          "U+FB05 U+FB06 U+FB13 U+FB14 U+FB15 U+FB16 U+FB17 U+FF21 U+FF22 U+FF23 U+FF24 U+FF25 U+FF26 U+FF27 U+FF28 ",
          "U+FF29 U+FF2A U+FF2B U+FF2C U+FF2D U+FF2E U+FF2F U+FF30 U+FF31 U+FF32 U+FF33 U+FF34 U+FF35 U+FF36 U+FF37 ",
          "U+FF38 U+FF39 U+FF3A U+FF41 U+FF42 U+FF43 U+FF44 U+FF45 U+FF46 U+FF47 U+FF48 U+FF49 U+FF4A U+FF4B U+FF4C ",
          "U+FF4D U+FF4E U+FF4F U+FF50 U+FF51 U+FF52 U+FF53 U+FF54 U+FF55 U+FF56 U+FF57 U+FF58 U+FF59 U+FF5A U+10400",
          "U+10401U+10402U+10403U+10404U+10405U+10406U+10407U+10408U+10409U+1040AU+1040BU+1040CU+1040DU+1040EU+1040F",
          "U+10410U+10411U+10412U+10413U+10414U+10415U+10416U+10417U+10418U+10419U+1041AU+1041BU+1041CU+1041DU+1041E",
          "U+1041FU+10420U+10421U+10422U+10423U+10424U+10425U+10426U+10427U+10428U+10429U+1042AU+1042BU+1042CU+1042D",
          "U+1042EU+1042FU+10430U+10431U+10432U+10433U+10434U+10435U+10436U+10437U+10438U+10439U+1043AU+1043BU+1043C",
          "U+1043DU+1043EU+1043FU+10440U+10441U+10442U+10443U+10444U+10445U+10446U+10447U+10448U+10449U+1044AU+1044B",
          "U+1044CU+1044DU+1044EU+1044FU+104B0U+104B1U+104B2U+104B3U+104B4U+104B5U+104B6U+104B7U+104B8U+104B9U+104BA",
          "U+104BBU+104BCU+104BDU+104BEU+104BFU+104C0U+104C1U+104C2U+104C3U+104C4U+104C5U+104C6U+104C7U+104C8U+104C9",
          "U+104CAU+104CBU+104CCU+104CDU+104CEU+104CFU+104D0U+104D1U+104D2U+104D3U+104D8U+104D9U+104DAU+104DBU+104DC",
          "U+104DDU+104DEU+104DFU+104E0U+104E1U+104E2U+104E3U+104E4U+104E5U+104E6U+104E7U+104E8U+104E9U+104EAU+104EB",
          "U+104ECU+104EDU+104EEU+104EFU+104F0U+104F1U+104F2U+104F3U+104F4U+104F5U+104F6U+104F7U+104F8U+104F9U+104FA",
          "U+104FBU+10570U+10571U+10572U+10573U+10574U+10575U+10576U+10577U+10578U+10579U+1057AU+1057CU+1057DU+1057E",
          "U+1057FU+10580U+10581U+10582U+10583U+10584U+10585U+10586U+10587U+10588U+10589U+1058AU+1058CU+1058DU+1058E",
          "U+1058FU+10590U+10591U+10592U+10594U+10595U+10597U+10598U+10599U+1059AU+1059BU+1059CU+1059DU+1059EU+1059F",
          "U+105A0U+105A1U+105A3U+105A4U+105A5U+105A6U+105A7U+105A8U+105A9U+105AAU+105ABU+105ACU+105ADU+105AEU+105AF",
          "U+105B0U+105B1U+105B3U+105B4U+105B5U+105B6U+105B7U+105B8U+105B9U+105BBU+105BCU+10780U+10783U+10784U+10785",
          "U+10787U+10788U+10789U+1078AU+1078BU+1078CU+1078DU+1078EU+1078FU+10790U+10791U+10792U+10793U+10794U+10795",
          "U+10796U+10797U+10798U+10799U+1079AU+1079BU+1079CU+1079DU+1079EU+1079FU+107A0U+107A1U+107A2U+107A3U+107A4",
          "U+107A5U+107A6U+107A7U+107A8U+107A9U+107AAU+107ABU+107ACU+107ADU+107AEU+107AFU+107B0U+107B2U+107B3U+107B4",
          "U+107B5U+107B6U+107B7U+107B8U+107B9U+107BAU+10C80U+10C81U+10C82U+10C83U+10C84U+10C85U+10C86U+10C87U+10C88",
          "U+10C89U+10C8AU+10C8BU+10C8CU+10C8DU+10C8EU+10C8FU+10C90U+10C91U+10C92U+10C93U+10C94U+10C95U+10C96U+10C97",
          "U+10C98U+10C99U+10C9AU+10C9BU+10C9CU+10C9DU+10C9EU+10C9FU+10CA0U+10CA1U+10CA2U+10CA3U+10CA4U+10CA5U+10CA6",
          "U+10CA7U+10CA8U+10CA9U+10CAAU+10CABU+10CACU+10CADU+10CAEU+10CAFU+10CB0U+10CB1U+10CB2U+10CC0U+10CC1U+10CC2",
          "U+10CC3U+10CC4U+10CC5U+10CC6U+10CC7U+10CC8U+10CC9U+10CCAU+10CCBU+10CCCU+10CCDU+10CCEU+10CCFU+10CD0U+10CD1",
          "U+10CD2U+10CD3U+10CD4U+10CD5U+10CD6U+10CD7U+10CD8U+10CD9U+10CDAU+10CDBU+10CDCU+10CDDU+10CDEU+10CDFU+10CE0",
          "U+10CE1U+10CE2U+10CE3U+10CE4U+10CE5U+10CE6U+10CE7U+10CE8U+10CE9U+10CEAU+10CEBU+10CECU+10CEDU+10CEEU+10CEF",
          "U+10CF0U+10CF1U+10CF2U+118A0U+118A1U+118A2U+118A3U+118A4U+118A5U+118A6U+118A7U+118A8U+118A9U+118AAU+118AB",
          "U+118ACU+118ADU+118AEU+118AFU+118B0U+118B1U+118B2U+118B3U+118B4U+118B5U+118B6U+118B7U+118B8U+118B9U+118BA",
          "U+118BBU+118BCU+118BDU+118BEU+118BFU+118C0U+118C1U+118C2U+118C3U+118C4U+118C5U+118C6U+118C7U+118C8U+118C9",
          "U+118CAU+118CBU+118CCU+118CDU+118CEU+118CFU+118D0U+118D1U+118D2U+118D3U+118D4U+118D5U+118D6U+118D7U+118D8",
          "U+118D9U+118DAU+118DBU+118DCU+118DDU+118DEU+118DFU+16E40U+16E41U+16E42U+16E43U+16E44U+16E45U+16E46U+16E47",
          "U+16E48U+16E49U+16E4AU+16E4BU+16E4CU+16E4DU+16E4EU+16E4FU+16E50U+16E51U+16E52U+16E53U+16E54U+16E55U+16E56",
          "U+16E57U+16E58U+16E59U+16E5AU+16E5BU+16E5CU+16E5DU+16E5EU+16E5FU+16E60U+16E61U+16E62U+16E63U+16E64U+16E65",
          "U+16E66U+16E67U+16E68U+16E69U+16E6AU+16E6BU+16E6CU+16E6DU+16E6EU+16E6FU+16E70U+16E71U+16E72U+16E73U+16E74",
          "U+16E75U+16E76U+16E77U+16E78U+16E79U+16E7AU+16E7BU+16E7CU+16E7DU+16E7EU+16E7FU+1D400U+1D401U+1D402U+1D403",
          "U+1D404U+1D405U+1D406U+1D407U+1D408U+1D409U+1D40AU+1D40BU+1D40CU+1D40DU+1D40EU+1D40FU+1D410U+1D411U+1D412",
          "U+1D413U+1D414U+1D415U+1D416U+1D417U+1D418U+1D419U+1D41AU+1D41BU+1D41CU+1D41DU+1D41EU+1D41FU+1D420U+1D421",
          "U+1D422U+1D423U+1D424U+1D425U+1D426U+1D427U+1D428U+1D429U+1D42AU+1D42BU+1D42CU+1D42DU+1D42EU+1D42FU+1D430",
          "U+1D431U+1D432U+1D433U+1D434U+1D435U+1D436U+1D437U+1D438U+1D439U+1D43AU+1D43BU+1D43CU+1D43DU+1D43EU+1D43F",
          "U+1D440U+1D441U+1D442U+1D443U+1D444U+1D445U+1D446U+1D447U+1D448U+1D449U+1D44AU+1D44BU+1D44CU+1D44DU+1D44E",
          "U+1D44FU+1D450U+1D451U+1D452U+1D453U+1D454U+1D456U+1D457U+1D458U+1D459U+1D45AU+1D45BU+1D45CU+1D45DU+1D45E",
          "U+1D45FU+1D460U+1D461U+1D462U+1D463U+1D464U+1D465U+1D466U+1D467U+1D468U+1D469U+1D46AU+1D46BU+1D46CU+1D46D",
          "U+1D46EU+1D46FU+1D470U+1D471U+1D472U+1D473U+1D474U+1D475U+1D476U+1D477U+1D478U+1D479U+1D47AU+1D47BU+1D47C",
          "U+1D47DU+1D47EU+1D47FU+1D480U+1D481U+1D482U+1D483U+1D484U+1D485U+1D486U+1D487U+1D488U+1D489U+1D48AU+1D48B",
          "U+1D48CU+1D48DU+1D48EU+1D48FU+1D490U+1D491U+1D492U+1D493U+1D494U+1D495U+1D496U+1D497U+1D498U+1D499U+1D49A",
          "U+1D49BU+1D49CU+1D49EU+1D49FU+1D4A2U+1D4A5U+1D4A6U+1D4A9U+1D4AAU+1D4ABU+1D4ACU+1D4AEU+1D4AFU+1D4B0U+1D4B1",
          "U+1D4B2U+1D4B3U+1D4B4U+1D4B5U+1D4B6U+1D4B7U+1D4B8U+1D4B9U+1D4BBU+1D4BDU+1D4BEU+1D4BFU+1D4C0U+1D4C1U+1D4C2",
          "U+1D4C3U+1D4C5U+1D4C6U+1D4C7U+1D4C8U+1D4C9U+1D4CAU+1D4CBU+1D4CCU+1D4CDU+1D4CEU+1D4CFU+1D4D0U+1D4D1U+1D4D2",
          "U+1D4D3U+1D4D4U+1D4D5U+1D4D6U+1D4D7U+1D4D8U+1D4D9U+1D4DAU+1D4DBU+1D4DCU+1D4DDU+1D4DEU+1D4DFU+1D4E0U+1D4E1",
          "U+1D4E2U+1D4E3U+1D4E4U+1D4E5U+1D4E6U+1D4E7U+1D4E8U+1D4E9U+1D4EAU+1D4EBU+1D4ECU+1D4EDU+1D4EEU+1D4EFU+1D4F0",
          "U+1D4F1U+1D4F2U+1D4F3U+1D4F4U+1D4F5U+1D4F6U+1D4F7U+1D4F8U+1D4F9U+1D4FAU+1D4FBU+1D4FCU+1D4FDU+1D4FEU+1D4FF",
          "U+1D500U+1D501U+1D502U+1D503U+1D504U+1D505U+1D507U+1D508U+1D509U+1D50AU+1D50DU+1D50EU+1D50FU+1D510U+1D511",
          "U+1D512U+1D513U+1D514U+1D516U+1D517U+1D518U+1D519U+1D51AU+1D51BU+1D51CU+1D51EU+1D51FU+1D520U+1D521U+1D522",
          "U+1D523U+1D524U+1D525U+1D526U+1D527U+1D528U+1D529U+1D52AU+1D52BU+1D52CU+1D52DU+1D52EU+1D52FU+1D530U+1D531",
          "U+1D532U+1D533U+1D534U+1D535U+1D536U+1D537U+1D538U+1D539U+1D53BU+1D53CU+1D53DU+1D53EU+1D540U+1D541U+1D542",
          "U+1D543U+1D544U+1D546U+1D54AU+1D54BU+1D54CU+1D54DU+1D54EU+1D54FU+1D550U+1D552U+1D553U+1D554U+1D555U+1D556",
          "U+1D557U+1D558U+1D559U+1D55AU+1D55BU+1D55CU+1D55DU+1D55EU+1D55FU+1D560U+1D561U+1D562U+1D563U+1D564U+1D565",
          "U+1D566U+1D567U+1D568U+1D569U+1D56AU+1D56BU+1D56CU+1D56DU+1D56EU+1D56FU+1D570U+1D571U+1D572U+1D573U+1D574",
          "U+1D575U+1D576U+1D577U+1D578U+1D579U+1D57AU+1D57BU+1D57CU+1D57DU+1D57EU+1D57FU+1D580U+1D581U+1D582U+1D583",
          "U+1D584U+1D585U+1D586U+1D587U+1D588U+1D589U+1D58AU+1D58BU+1D58CU+1D58DU+1D58EU+1D58FU+1D590U+1D591U+1D592",
          "U+1D593U+1D594U+1D595U+1D596U+1D597U+1D598U+1D599U+1D59AU+1D59BU+1D59CU+1D59DU+1D59EU+1D59FU+1D5A0U+1D5A1",
          "U+1D5A2U+1D5A3U+1D5A4U+1D5A5U+1D5A6U+1D5A7U+1D5A8U+1D5A9U+1D5AAU+1D5ABU+1D5ACU+1D5ADU+1D5AEU+1D5AFU+1D5B0",
          "U+1D5B1U+1D5B2U+1D5B3U+1D5B4U+1D5B5U+1D5B6U+1D5B7U+1D5B8U+1D5B9U+1D5BAU+1D5BBU+1D5BCU+1D5BDU+1D5BEU+1D5BF",
          "U+1D5C0U+1D5C1U+1D5C2U+1D5C3U+1D5C4U+1D5C5U+1D5C6U+1D5C7U+1D5C8U+1D5C9U+1D5CAU+1D5CBU+1D5CCU+1D5CDU+1D5CE",
          "U+1D5CFU+1D5D0U+1D5D1U+1D5D2U+1D5D3U+1D5D4U+1D5D5U+1D5D6U+1D5D7U+1D5D8U+1D5D9U+1D5DAU+1D5DBU+1D5DCU+1D5DD",
          "U+1D5DEU+1D5DFU+1D5E0U+1D5E1U+1D5E2U+1D5E3U+1D5E4U+1D5E5U+1D5E6U+1D5E7U+1D5E8U+1D5E9U+1D5EAU+1D5EBU+1D5EC",
          "U+1D5EDU+1D5EEU+1D5EFU+1D5F0U+1D5F1U+1D5F2U+1D5F3U+1D5F4U+1D5F5U+1D5F6U+1D5F7U+1D5F8U+1D5F9U+1D5FAU+1D5FB",
          "U+1D5FCU+1D5FDU+1D5FEU+1D5FFU+1D600U+1D601U+1D602U+1D603U+1D604U+1D605U+1D606U+1D607U+1D608U+1D609U+1D60A",
          "U+1D60BU+1D60CU+1D60DU+1D60EU+1D60FU+1D610U+1D611U+1D612U+1D613U+1D614U+1D615U+1D616U+1D617U+1D618U+1D619",
          "U+1D61AU+1D61BU+1D61CU+1D61DU+1D61EU+1D61FU+1D620U+1D621U+1D622U+1D623U+1D624U+1D625U+1D626U+1D627U+1D628",
          "U+1D629U+1D62AU+1D62BU+1D62CU+1D62DU+1D62EU+1D62FU+1D630U+1D631U+1D632U+1D633U+1D634U+1D635U+1D636U+1D637",
          "U+1D638U+1D639U+1D63AU+1D63BU+1D63CU+1D63DU+1D63EU+1D63FU+1D640U+1D641U+1D642U+1D643U+1D644U+1D645U+1D646",
          "U+1D647U+1D648U+1D649U+1D64AU+1D64BU+1D64CU+1D64DU+1D64EU+1D64FU+1D650U+1D651U+1D652U+1D653U+1D654U+1D655",
          "U+1D656U+1D657U+1D658U+1D659U+1D65AU+1D65BU+1D65CU+1D65DU+1D65EU+1D65FU+1D660U+1D661U+1D662U+1D663U+1D664",
          "U+1D665U+1D666U+1D667U+1D668U+1D669U+1D66AU+1D66BU+1D66CU+1D66DU+1D66EU+1D66FU+1D670U+1D671U+1D672U+1D673",
          "U+1D674U+1D675U+1D676U+1D677U+1D678U+1D679U+1D67AU+1D67BU+1D67CU+1D67DU+1D67EU+1D67FU+1D680U+1D681U+1D682",
          "U+1D683U+1D684U+1D685U+1D686U+1D687U+1D688U+1D689U+1D68AU+1D68BU+1D68CU+1D68DU+1D68EU+1D68FU+1D690U+1D691",
          "U+1D692U+1D693U+1D694U+1D695U+1D696U+1D697U+1D698U+1D699U+1D69AU+1D69BU+1D69CU+1D69DU+1D69EU+1D69FU+1D6A0",
          "U+1D6A1U+1D6A2U+1D6A3U+1D6A4U+1D6A5U+1D6A8U+1D6A9U+1D6AAU+1D6ABU+1D6ACU+1D6ADU+1D6AEU+1D6AFU+1D6B0U+1D6B1",
          "U+1D6B2U+1D6B3U+1D6B4U+1D6B5U+1D6B6U+1D6B7U+1D6B8U+1D6B9U+1D6BAU+1D6BBU+1D6BCU+1D6BDU+1D6BEU+1D6BFU+1D6C0",
          "U+1D6C2U+1D6C3U+1D6C4U+1D6C5U+1D6C6U+1D6C7U+1D6C8U+1D6C9U+1D6CAU+1D6CBU+1D6CCU+1D6CDU+1D6CEU+1D6CFU+1D6D0",
          "U+1D6D1U+1D6D2U+1D6D3U+1D6D4U+1D6D5U+1D6D6U+1D6D7U+1D6D8U+1D6D9U+1D6DAU+1D6DCU+1D6DDU+1D6DEU+1D6DFU+1D6E0",
          "U+1D6E1U+1D6E2U+1D6E3U+1D6E4U+1D6E5U+1D6E6U+1D6E7U+1D6E8U+1D6E9U+1D6EAU+1D6EBU+1D6ECU+1D6EDU+1D6EEU+1D6EF",
          "U+1D6F0U+1D6F1U+1D6F2U+1D6F3U+1D6F4U+1D6F5U+1D6F6U+1D6F7U+1D6F8U+1D6F9U+1D6FAU+1D6FCU+1D6FDU+1D6FEU+1D6FF",
          "U+1D700U+1D701U+1D702U+1D703U+1D704U+1D705U+1D706U+1D707U+1D708U+1D709U+1D70AU+1D70BU+1D70CU+1D70DU+1D70E",
          "U+1D70FU+1D710U+1D711U+1D712U+1D713U+1D714U+1D716U+1D717U+1D718U+1D719U+1D71AU+1D71BU+1D71CU+1D71DU+1D71E",
          "U+1D71FU+1D720U+1D721U+1D722U+1D723U+1D724U+1D725U+1D726U+1D727U+1D728U+1D729U+1D72AU+1D72BU+1D72CU+1D72D",
          "U+1D72EU+1D72FU+1D730U+1D731U+1D732U+1D733U+1D734U+1D736U+1D737U+1D738U+1D739U+1D73AU+1D73BU+1D73CU+1D73D",
          "U+1D73EU+1D73FU+1D740U+1D741U+1D742U+1D743U+1D744U+1D745U+1D746U+1D747U+1D748U+1D749U+1D74AU+1D74BU+1D74C",
          "U+1D74DU+1D74EU+1D750U+1D751U+1D752U+1D753U+1D754U+1D755U+1D756U+1D757U+1D758U+1D759U+1D75AU+1D75BU+1D75C",
          "U+1D75DU+1D75EU+1D75FU+1D760U+1D761U+1D762U+1D763U+1D764U+1D765U+1D766U+1D767U+1D768U+1D769U+1D76AU+1D76B",
          "U+1D76CU+1D76DU+1D76EU+1D770U+1D771U+1D772U+1D773U+1D774U+1D775U+1D776U+1D777U+1D778U+1D779U+1D77AU+1D77B",
          "U+1D77CU+1D77DU+1D77EU+1D77FU+1D780U+1D781U+1D782U+1D783U+1D784U+1D785U+1D786U+1D787U+1D788U+1D78AU+1D78B",
          "U+1D78CU+1D78DU+1D78EU+1D78FU+1D790U+1D791U+1D792U+1D793U+1D794U+1D795U+1D796U+1D797U+1D798U+1D799U+1D79A",
          "U+1D79BU+1D79CU+1D79DU+1D79EU+1D79FU+1D7A0U+1D7A1U+1D7A2U+1D7A3U+1D7A4U+1D7A5U+1D7A6U+1D7A7U+1D7A8U+1D7AA",
          "U+1D7ABU+1D7ACU+1D7ADU+1D7AEU+1D7AFU+1D7B0U+1D7B1U+1D7B2U+1D7B3U+1D7B4U+1D7B5U+1D7B6U+1D7B7U+1D7B8U+1D7B9",
          "U+1D7BAU+1D7BBU+1D7BCU+1D7BDU+1D7BEU+1D7BFU+1D7C0U+1D7C1U+1D7C2U+1D7C4U+1D7C5U+1D7C6U+1D7C7U+1D7C8U+1D7C9",
          "U+1D7CAU+1D7CBU+1DF00U+1DF01U+1DF02U+1DF03U+1DF04U+1DF05U+1DF06U+1DF07U+1DF08U+1DF09U+1DF0BU+1DF0CU+1DF0D",
          "U+1DF0EU+1DF0FU+1DF10U+1DF11U+1DF12U+1DF13U+1DF14U+1DF15U+1DF16U+1DF17U+1DF18U+1DF19U+1DF1AU+1DF1BU+1DF1C",
          "U+1DF1DU+1DF1EU+1E900U+1E901U+1E902U+1E903U+1E904U+1E905U+1E906U+1E907U+1E908U+1E909U+1E90AU+1E90BU+1E90C",
          "U+1E90DU+1E90EU+1E90FU+1E910U+1E911U+1E912U+1E913U+1E914U+1E915U+1E916U+1E917U+1E918U+1E919U+1E91AU+1E91B",
          "U+1E91CU+1E91DU+1E91EU+1E91FU+1E920U+1E921U+1E922U+1E923U+1E924U+1E925U+1E926U+1E927U+1E928U+1E929U+1E92A",
          "U+1E92BU+1E92CU+1E92DU+1E92EU+1E92FU+1E930U+1E931U+1E932U+1E933U+1E934U+1E935U+1E936U+1E937U+1E938U+1E939",
          "U+1E93AU+1E93BU+1E93CU+1E93DU+1E93EU+1E93FU+1E940U+1E941U+1E942U+1E943U+1F130U+1F131U+1F132U+1F133U+1F134",
          "U+1F135U+1F136U+1F137U+1F138U+1F139U+1F13AU+1F13BU+1F13CU+1F13DU+1F13EU+1F13FU+1F140U+1F141U+1F142U+1F143",
          "U+1F144U+1F145U+1F146U+1F147U+1F148U+1F149U+1F150U+1F151U+1F152U+1F153U+1F154U+1F155U+1F156U+1F157U+1F158",
          "U+1F159U+1F15AU+1F15BU+1F15CU+1F15DU+1F15EU+1F15FU+1F160U+1F161U+1F162U+1F163U+1F164U+1F165U+1F166U+1F167",
          "U+1F168U+1F169U+1F170U+1F171U+1F172U+1F173U+1F174U+1F175U+1F176U+1F177U+1F178U+1F179U+1F17AU+1F17BU+1F17C",
          "U+1F17DU+1F17EU+1F17FU+1F180U+1F181U+1F182U+1F183U+1F184U+1F185U+1F186U+1F187U+1F188U+1F189">>, 7)}

\* the code points the final-sigma rule of str.lower() skips (Case_Ignorable)
CASE_IGNORABLE ==
    {CodePoint(field) : field \in Fields(
        <<"'      .      :      ^      U+0060 U+00A8 U+00AD U+00AF U+00B4 U+00B7 U+00B8 U+02B0 U+02B1 U+02B2 U+02B3 ",
          "U+02B4 U+02B5 U+02B6 U+02B7 U+02B8 U+02B9 U+02BA U+02BB U+02BC U+02BD U+02BE U+02BF U+02C0 U+02C1 U+02C2 ",
          "U+02C3 U+02C4 U+02C5 U+02C6 U+02C7 U+02C8 U+02C9 U+02CA U+02CB U+02CC U+02CD U+02CE U+02CF U+02D0 U+02D1 ",
          "U+02D2 U+02D3 U+02D4 U+02D5 U+02D6 U+02D7 U+02D8 U+02D9 U+02DA U+02DB U+02DC U+02DD U+02DE U+02DF U+02E0 ",
          "U+02E1 U+02E2 U+02E3 U+02E4 U+02E5 U+02E6 U+02E7 U+02E8 U+02E9 U+02EA U+02EB U+02EC U+02ED U+02EE U+02EF ",
          "U+02F0 U+02F1 U+02F2 U+02F3 U+02F4 U+02F5 U+02F6 U+02F7 U+02F8 U+02F9 U+02FA U+02FB U+02FC U+02FD U+02FE ",
          "U+02FF U+0300 U+0301 U+0302 U+0303 U+0304 U+0305 U+0306 U+0307 U+0308 U+0309 U+030A U+030B U+030C U+030D ",
          "U+030E U+030F U+0310 U+0311 U+0312 U+0313 U+0314 U+0315 U+0316 U+0317 U+0318 U+0319 U+031A U+031B U+031C ",
          "U+031D U+031E U+031F U+0320 U+0321 U+0322 U+0323 U+0324 U+0325 U+0326 U+0327 U+0328 U+0329 U+032A U+032B ",
          "U+032C U+032D U+032E U+032F U+0330 U+0331 U+0332 U+0333 U+0334 U+0335 U+0336 U+0337 U+0338 U+0339 U+033A ",
          "U+033B U+033C U+033D U+033E U+033F U+0340 U+0341 U+0342 U+0343 U+0344 U+0345 U+0346 U+0347 U+0348 U+0349 ",
          "U+034A U+034B U+034C U+034D U+034E U+034F U+0350 U+0351 U+0352 U+0353 U+0354 U+0355 U+0356 U+0357 U+0358 ",
          "U+0359 U+035A U+035B U+035C U+035D U+035E U+035F U+0360 U+0361 U+0362 U+0363 U+0364 U+0365 U+0366 U+0367 ",
          "U+0368 U+0369 U+036A U+036B U+036C U+036D U+036E U+036F U+0374 U+0375 U+037A U+0384 U+0385 U+0387 U+0483 ",
          "U+0484 U+0485 U+0486 U+0487 U+0488 U+0489 U+0559 U+055F U+0591 U+0592 U+0593 U+0594 U+0595 U+0596 U+0597 ",
          "U+0598 U+0599 U+059A U+059B U+059C U+059D U+059E U+059F U+05A0 U+05A1 U+05A2 U+05A3 U+05A4 U+05A5 U+05A6 ",
          "U+05A7 U+05A8 U+05A9 U+05AA U+05AB U+05AC U+05AD U+05AE U+05AF U+05B0 U+05B1 U+05B2 U+05B3 U+05B4 U+05B5 ",
          "U+05B6 U+05B7 U+05B8 U+05B9 U+05BA U+05BB U+05BC U+05BD U+05BF U+05C1 U+05C2 U+05C4 U+05C5 U+05C7 U+05F4 ",
          "U+0600 U+0601 U+0602 U+0603 U+0604 U+0605 U+0610 U+0611 U+0612 U+0613 U+0614 U+0615 U+0616 U+0617 U+0618 ",
          "U+0619 U+061A U+061C U+0640 U+064B U+064C U+064D U+064E U+064F U+0650 U+0651 U+0652 U+0653 U+0654 U+0655 ",
          "U+0656 U+0657 U+0658 U+0659 U+065A U+065B U+065C U+065D U+065E U+065F U+0670 U+06D6 U+06D7 U+06D8 U+06D9 ",
          "U+06DA U+06DB U+06DC U+06DD U+06DF U+06E0 U+06E1 U+06E2 U+06E3 U+06E4 U+06E5 U+06E6 U+06E7 U+06E8 U+06EA ",
          "U+06EB U+06EC U+06ED U+070F U+0711 U+0730 U+0731 U+0732 U+0733 U+0734 U+0735 U+0736 U+0737 U+0738 U+0739 ",
          "U+073A U+073B U+073C U+073D U+073E U+073F U+0740 U+0741 U+0742 U+0743 U+0744 U+0745 U+0746 U+0747 U+0748 ",
          "U+0749 U+074A U+07A6 U+07A7 U+07A8 U+07A9 U+07AA U+07AB U+07AC U+07AD U+07AE U+07AF U+07B0 U+07EB U+07EC ",
          "U+07ED U+07EE U+07EF U+07F0 U+07F1 U+07F2 U+07F3 U+07F4 U+07F5 U+07FA U+07FD U+0816 U+0817 U+0818 U+0819 ",
          "U+081A U+081B U+081C U+081D U+081E U+081F U+0820 U+0821 U+0822 U+0823 U+0824 U+0825 U+0826 U+0827 U+0828 ",
          "U+0829 U+082A U+082B U+082C U+082D U+0859 U+085A U+085B U+0888 U+0890 U+0891 U+0898 U+0899 U+089A U+089B ",
          "U+089C U+089D U+089E U+089F U+08C9 U+08CA U+08CB U+08CC U+08CD U+08CE U+08CF U+08D0 U+08D1 U+08D2 U+08D3 ",
          "U+08D4 U+08D5 U+08D6 U+08D7 U+08D8 U+08D9 U+08DA U+08DB U+08DC U+08DD U+08DE U+08DF U+08E0 U+08E1 U+08E2 ",
          "U+08E3 U+08E4 U+08E5 U+08E6 U+08E7 U+08E8 U+08E9 U+08EA U+08EB U+08EC U+08ED U+08EE U+08EF U+08F0 U+08F1 ",
          "U+08F2 U+08F3 U+08F4 U+08F5 U+08F6 U+08F7 U+08F8 U+08F9 U+08FA U+08FB U+08FC U+08FD U+08FE U+08FF U+0900 ",
          "U+0901 U+0902 U+093A U+093C U+0941 U+0942 U+0943 U+0944 U+0945 U+0946 U+0947 U+0948 U+094D U+0951 U+0952 ",
          "U+0953 U+0954 U+0955 U+0956 U+0957 U+0962 U+0963 U+0971 U+0981 U+09BC U+09C1 U+09C2 U+09C3 U+09C4 U+09CD ",
          "U+09E2 U+09E3 U+09FE U+0A01 U+0A02 U+0A3C U+0A41 U+0A42 U+0A47 U+0A48 U+0A4B U+0A4C U+0A4D U+0A51 U+0A70 ",
          "U+0A71 U+0A75 U+0A81 U+0A82 U+0ABC U+0AC1 U+0AC2 U+0AC3 U+0AC4 U+0AC5 U+0AC7 U+0AC8 U+0ACD U+0AE2 U+0AE3 ",
          "U+0AFA U+0AFB U+0AFC U+0AFD U+0AFE U+0AFF U+0B01 U+0B3C U+0B3F U+0B41 U+0B42 U+0B43 U+0B44 U+0B4D U+0B55 ",
          "U+0B56 U+0B62 U+0B63 U+0B82 U+0BC0 U+0BCD U+0C00 U+0C04 U+0C3C U+0C3E U+0C3F U+0C40 U+0C46 U+0C47 U+0C48 ",
          "U+0C4A U+0C4B U+0C4C U+0C4D U+0C55 U+0C56 U+0C62 U+0C63 U+0C81 U+0CBC U+0CBF U+0CC6 U+0CCC U+0CCD U+0CE2 ",
          "U+0CE3 U+0D00 U+0D01 U+0D3B U+0D3C U+0D41 U+0D42 U+0D43 U+0D44 U+0D4D U+0D62 U+0D63 U+0D81 U+0DCA U+0DD2 ",
          "U+0DD3 U+0DD4 U+0DD6 U+0E31 U+0E34 U+0E35 U+0E36 U+0E37 U+0E38 U+0E39 U+0E3A U+0E46 U+0E47 U+0E48 U+0E49 ",
          "U+0E4A U+0E4B U+0E4C U+0E4D U+0E4E U+0EB1 U+0EB4 U+0EB5 U+0EB6 U+0EB7 U+0EB8 U+0EB9 U+0EBA U+0EBB U+0EBC ",
          "U+0EC6 U+0EC8 U+0EC9 U+0ECA U+0ECB U+0ECC U+0ECD U+0F18 U+0F19 U+0F35 U+0F37 U+0F39 U+0F71 U+0F72 U+0F73 ",
          "U+0F74 U+0F75 U+0F76 U+0F77 U+0F78 U+0F79 U+0F7A U+0F7B U+0F7C U+0F7D U+0F7E U+0F80 U+0F81 U+0F82 U+0F83 ",
          "U+0F84 U+0F86 U+0F87 U+0F8D U+0F8E U+0F8F U+0F90 U+0F91 U+0F92 U+0F93 U+0F94 U+0F95 U+0F96 U+0F97 U+0F99 ",
          "U+0F9A U+0F9B U+0F9C U+0F9D U+0F9E U+0F9F U+0FA0 U+0FA1 U+0FA2 U+0FA3 U+0FA4 U+0FA5 U+0FA6 U+0FA7 U+0FA8 ",
          "U+0FA9 U+0FAA U+0FAB U+0FAC U+0FAD U+0FAE U+0FAF U+0FB0 U+0FB1 U+0FB2 U+0FB3 U+0FB4 U+0FB5 U+0FB6 U+0FB7 ",
          "U+0FB8 U+0FB9 U+0FBA U+0FBB U+0FBC U+0FC6 U+102D U+102E U+102F U+1030 U+1032 U+1033 U+1034 U+1035 U+1036 ",
          "U+1037 U+1039 U+103A U+103D U+103E U+1058 U+1059 U+105E U+105F U+1060 U+1071 U+1072 U+1073 U+1074 U+1082 ",
          "U+1085 U+1086 U+108D U+109D U+10FC U+135D U+135E U+135F U+1712 U+1713 U+1714 U+1732 U+1733 U+1752 U+1753 ",
          "U+1772 U+1773 U+17B4 U+17B5 U+17B7 U+17B8 U+17B9 U+17BA U+17BB U+17BC U+17BD U+17C6 U+17C9 U+17CA U+17CB ",
          "U+17CC U+17CD U+17CE U+17CF U+17D0 U+17D1 U+17D2 U+17D3 U+17D7 U+17DD U+180B U+180C U+180D U+180E U+180F ",
          "U+1843 U+1885 U+1886 U+18A9 U+1920 U+1921 U+1922 U+1927 U+1928 U+1932 U+1939 U+193A U+193B U+1A17 U+1A18 ",
          "U+1A1B U+1A56 U+1A58 U+1A59 U+1A5A U+1A5B U+1A5C U+1A5D U+1A5E U+1A60 U+1A62 U+1A65 U+1A66 U+1A67 U+1A68 ",
          "U+1A69 U+1A6A U+1A6B U+1A6C U+1A73 U+1A74 U+1A75 U+1A76 U+1A77 U+1A78 U+1A79 U+1A7A U+1A7B U+1A7C U+1A7F ",
          "U+1AA7 U+1AB0 U+1AB1 U+1AB2 U+1AB3 U+1AB4 U+1AB5 U+1AB6 U+1AB7 U+1AB8 U+1AB9 U+1ABA U+1ABB U+1ABC U+1ABD ",
          "U+1ABE U+1ABF U+1AC0 U+1AC1 U+1AC2 U+1AC3 U+1AC4 U+1AC5 U+1AC6 U+1AC7 U+1AC8 U+1AC9 U+1ACA U+1ACB U+1ACC ",
          "U+1ACD U+1ACE U+1B00 U+1B01 U+1B02 U+1B03 U+1B34 U+1B36 U+1B37 U+1B38 U+1B39 U+1B3A U+1B3C U+1B42 U+1B6B ",
          "U+1B6C U+1B6D U+1B6E U+1B6F U+1B70 U+1B71 U+1B72 U+1B73 U+1B80 U+1B81 U+1BA2 U+1BA3 U+1BA4 U+1BA5 U+1BA8 ",
          "U+1BA9 U+1BAB U+1BAC U+1BAD U+1BE6 U+1BE8 U+1BE9 U+1BED U+1BEF U+1BF0 U+1BF1 U+1C2C U+1C2D U+1C2E U+1C2F ",
          "U+1C30 U+1C31 U+1C32 U+1C33 U+1C36 U+1C37 U+1C78 U+1C79 U+1C7A U+1C7B U+1C7C U+1C7D U+1CD0 U+1CD1 U+1CD2 ",
          "U+1CD4 U+1CD5 U+1CD6 U+1CD7 U+1CD8 U+1CD9 U+1CDA U+1CDB U+1CDC U+1CDD U+1CDE U+1CDF U+1CE0 U+1CE2 U+1CE3 ",
          "U+1CE4 U+1CE5 U+1CE6 U+1CE7 U+1CE8 U+1CED U+1CF4 U+1CF8 U+1CF9 U+1D2C U+1D2D U+1D2E U+1D2F U+1D30 U+1D31 ",
          "U+1D32 U+1D33 U+1D34 U+1D35 U+1D36 U+1D37 U+1D38 U+1D39 U+1D3A U+1D3B U+1D3C U+1D3D U+1D3E U+1D3F U+1D40 ",
          "U+1D41 U+1D42 U+1D43 U+1D44 U+1D45 U+1D46 U+1D47 U+1D48 U+1D49 U+1D4A U+1D4B U+1D4C U+1D4D U+1D4E U+1D4F ",
          "U+1D50 U+1D51 U+1D52 U+1D53 U+1D54 U+1D55 U+1D56 U+1D57 U+1D58 U+1D59 U+1D5A U+1D5B U+1D5C U+1D5D U+1D5E ",
          "U+1D5F U+1D60 U+1D61 U+1D62 U+1D63 U+1D64 U+1D65 U+1D66 U+1D67 U+1D68 U+1D69 U+1D6A U+1D78 U+1D9B U+1D9C ",
          "U+1D9D U+1D9E U+1D9F U+1DA0 U+1DA1 U+1DA2 U+1DA3 U+1DA4 U+1DA5 U+1DA6 U+1DA7 U+1DA8 U+1DA9 U+1DAA U+1DAB ",
          "U+1DAC U+1DAD U+1DAE U+1DAF U+1DB0 U+1DB1 U+1DB2 U+1DB3 U+1DB4 U+1DB5 U+1DB6 U+1DB7 U+1DB8 U+1DB9 U+1DBA ",
          "U+1DBB U+1DBC U+1DBD U+1DBE U+1DBF U+1DC0 U+1DC1 U+1DC2 U+1DC3 U+1DC4 U+1DC5 U+1DC6 U+1DC7 U+1DC8 U+1DC9 ",
          "U+1DCA U+1DCB U+1DCC U+1DCD U+1DCE U+1DCF U+1DD0 U+1DD1 U+1DD2 U+1DD3 U+1DD4 U+1DD5 U+1DD6 U+1DD7 U+1DD8 ",
          "U+1DD9 U+1DDA U+1DDB U+1DDC U+1DDD U+1DDE U+1DDF U+1DE0 U+1DE1 U+1DE2 U+1DE3 U+1DE4 U+1DE5 U+1DE6 U+1DE7 ",
          "U+1DE8 U+1DE9 U+1DEA U+1DEB U+1DEC U+1DED U+1DEE U+1DEF U+1DF0 U+1DF1 U+1DF2 U+1DF3 U+1DF4 U+1DF5 U+1DF6 ",
          "U+1DF7 U+1DF8 U+1DF9 U+1DFA U+1DFB U+1DFC U+1DFD U+1DFE U+1DFF U+1FBD U+1FBF U+1FC0 U+1FC1 U+1FCD U+1FCE ",
          "U+1FCF U+1FDD U+1FDE U+1FDF U+1FED U+1FEE U+1FEF U+1FFD U+1FFE U+200B U+200C U+200D U+200E U+200F U+2018 ",
          "U+2019 U+2024 U+2027 U+202A U+202B U+202C U+202D U+202E U+2060 U+2061 U+2062 U+2063 U+2064 U+2066 U+2067 ",
          "U+2068 U+2069 U+206A U+206B U+206C U+206D U+206E U+206F U+2071 U+207F U+2090 U+2091 U+2092 U+2093 U+2094 ",
          "U+2095 U+2096 U+2097 U+2098 U+2099 U+209A U+209B U+209C U+20D0 U+20D1 U+20D2 U+20D3 U+20D4 U+20D5 U+20D6 ",
          "U+20D7 U+20D8 U+20D9 U+20DA U+20DB U+20DC U+20DD U+20DE U+20DF U+20E0 U+20E1 U+20E2 U+20E3 U+20E4 U+20E5 ",
          "U+20E6 U+20E7 U+20E8 U+20E9 U+20EA U+20EB U+20EC U+20ED U+20EE U+20EF U+20F0 U+2C7C U+2C7D U+2CEF U+2CF0 ",
          "U+2CF1 U+2D6F U+2D7F U+2DE0 U+2DE1 U+2DE2 U+2DE3 U+2DE4 U+2DE5 U+2DE6 U+2DE7 U+2DE8 U+2DE9 U+2DEA U+2DEB ",
          "U+2DEC U+2DED U+2DEE U+2DEF U+2DF0 U+2DF1 U+2DF2 U+2DF3 U+2DF4 U+2DF5 U+2DF6 U+2DF7 U+2DF8 U+2DF9 U+2DFA ",
          "U+2DFB U+2DFC U+2DFD U+2DFE U+2DFF U+2E2F U+3005 U+302A U+302B U+302C U+302D U+3031 U+3032 U+3033 U+3034 ",
          "U+3035 U+303B U+3099 U+309A U+309B U+309C U+309D U+309E U+30FC U+30FD U+30FE U+A015 U+A4F8 U+A4F9 U+A4FA ",
          "U+A4FB U+A4FC U+A4FD U+A60C U+A66F U+A670 U+A671 U+A672 U+A674 U+A675 U+A676 U+A677 U+A678 U+A679 U+A67A ",
          "U+A67B U+A67C U+A67D U+A67F U+A69C U+A69D U+A69E U+A69F U+A6F0 U+A6F1 U+A700 U+A701 U+A702 U+A703 U+A704 ",
          "U+A705 U+A706 U+A707 U+A708 U+A709 U+A70A U+A70B U+A70C U+A70D U+A70E U+A70F U+A710 U+A711 U+A712 U+A713 ",
          "U+A714 U+A715 U+A716 U+A717 U+A718 U+A719 U+A71A U+A71B U+A71C U+A71D U+A71E U+A71F U+A720 U+A721 U+A770 ",
          "U+A788 U+A789 U+A78A U+A7F2 U+A7F3 U+A7F4 U+A7F8 U+A7F9 U+A802 U+A806 U+A80B U+A825 U+A826 U+A82C U+A8C4 ",
          "U+A8C5 U+A8E0 U+A8E1 U+A8E2 U+A8E3 U+A8E4 U+A8E5 U+A8E6 U+A8E7 U+A8E8 U+A8E9 U+A8EA U+A8EB U+A8EC U+A8ED ",
          "U+A8EE U+A8EF U+A8F0 U+A8F1 U+A8FF U+A926 U+A927 U+A928 U+A929 U+A92A U+A92B U+A92C U+A92D U+A947 U+A948 ",
          "U+A949 U+A94A U+A94B U+A94C U+A94D U+A94E U+A94F U+A950 U+A951 U+A980 U+A981 U+A982 U+A9B3 U+A9B6 U+A9B7 ",
          "U+A9B8 U+A9B9 U+A9BC U+A9BD U+A9CF U+A9E5 U+A9E6 U+AA29 U+AA2A U+AA2B U+AA2C U+AA2D U+AA2E U+AA31 U+AA32 ",
          "U+AA35 U+AA36 U+AA43 U+AA4C U+AA70 U+AA7C U+AAB0 U+AAB2 U+AAB3 U+AAB4 U+AAB7 U+AAB8 U+AABE U+AABF U+AAC1 ",
          "U+AADD U+AAEC U+AAED U+AAF3 U+AAF4 U+AAF6 U+AB5B U+AB5C U+AB5D U+AB5E U+AB5F U+AB69 U+AB6A U+AB6B U+ABE5 ",
          "U+ABE8 U+ABED U+FB1E U+FBB2 U+FBB3 U+FBB4 U+FBB5 U+FBB6 U+FBB7 U+FBB8 U+FBB9 U+FBBA U+FBBB U+FBBC U+FBBD ",
          "U+FBBE U+FBBF U+FBC0 U+FBC1 U+FBC2 U+FE00 U+FE01 U+FE02 U+FE03 U+FE04 U+FE05 U+FE06 U+FE07 U+FE08 U+FE09 ",
          "U+FE0A U+FE0B U+FE0C U+FE0D U+FE0E U+FE0F U+FE13 U+FE20 U+FE21 U+FE22 U+FE23 U+FE24 U+FE25 U+FE26 U+FE27 ",
          "U+FE28 U+FE29 U+FE2A U+FE2B U+FE2C U+FE2D U+FE2E U+FE2F U+FE52 U+FE55 U+FEFF U+FF07 U+FF0E U+FF1A U+FF3E ",
          "U+FF40 U+FF70 U+FF9E U+FF9F U+FFE3 U+FFF9 U+FFFA U+FFFB U+101FDU+102E0U+10376U+10377U+10378U+10379U+1037A",
          "U+10780U+10781U+10782U+10783U+10784U+10785U+10787U+10788U+10789U+1078AU+1078BU+1078CU+1078DU+1078EU+1078F",
          "U+10790U+10791U+10792U+10793U+10794U+10795U+10796U+10797U+10798U+10799U+1079AU+1079BU+1079CU+1079DU+1079E",
          "U+1079FU+107A0U+107A1U+107A2U+107A3U+107A4U+107A5U+107A6U+107A7U+107A8U+107A9U+107AAU+107ABU+107ACU+107AD",
          "U+107AEU+107AFU+107B0U+107B2U+107B3U+107B4U+107B5U+107B6U+107B7U+107B8U+107B9U+107BAU+10A01U+10A02U+10A03",
          "U+10A05U+10A06U+10A0CU+10A0DU+10A0EU+10A0FU+10A38U+10A39U+10A3AU+10A3FU+10AE5U+10AE6U+10D24U+10D25U+10D26",
          "U+10D27U+10EABU+10EACU+10F46U+10F47U+10F48U+10F49U+10F4AU+10F4BU+10F4CU+10F4DU+10F4EU+10F4FU+10F50U+10F82",
          "U+10F83U+10F84U+10F85U+11001U+11038U+11039U+1103AU+1103BU+1103CU+1103DU+1103EU+1103FU+11040U+11041U+11042",
          "U+11043U+11044U+11045U+11046U+11070U+11073U+11074U+1107FU+11080U+11081U+110B3U+110B4U+110B5U+110B6U+110B9",
          "U+110BAU+110BDU+110C2U+110CDU+11100U+11101U+11102U+11127U+11128U+11129U+1112AU+1112BU+1112DU+1112EU+1112F",
          "U+11130U+11131U+11132U+11133U+11134U+11173U+11180U+11181U+111B6U+111B7U+111B8U+111B9U+111BAU+111BBU+111BC",
          "U+111BDU+111BEU+111C9U+111CAU+111CBU+111CCU+111CFU+1122FU+11230U+11231U+11234U+11236U+11237U+1123EU+112DF",
          "U+112E3U+112E4U+112E5U+112E6U+112E7U+112E8U+112E9U+112EAU+11300U+11301U+1133BU+1133CU+11340U+11366U+11367",
          "U+11368U+11369U+1136AU+1136BU+1136CU+11370U+11371U+11372U+11373U+11374U+11438U+11439U+1143AU+1143BU+1143C",
          "U+1143DU+1143EU+1143FU+11442U+11443U+11444U+11446U+1145EU+114B3U+114B4U+114B5U+114B6U+114B7U+114B8U+114BA",
          "U+114BFU+114C0U+114C2U+114C3U+115B2U+115B3U+115B4U+115B5U+115BCU+115BDU+115BFU+115C0U+115DCU+115DDU+11633",
          "U+11634U+11635U+11636U+11637U+11638U+11639U+1163AU+1163DU+1163FU+11640U+116ABU+116ADU+116B0U+116B1U+116B2",
          "U+116B3U+116B4U+116B5U+116B7U+1171DU+1171EU+1171FU+11722U+11723U+11724U+11725U+11727U+11728U+11729U+1172A",
          "U+1172BU+1182FU+11830U+11831U+11832U+11833U+11834U+11835U+11836U+11837U+11839U+1183AU+1193BU+1193CU+1193E",
          "U+11943U+119D4U+119D5U+119D6U+119D7U+119DAU+119DBU+119E0U+11A01U+11A02U+11A03U+11A04U+11A05U+11A06U+11A07",
          "U+11A08U+11A09U+11A0AU+11A33U+11A34U+11A35U+11A36U+11A37U+11A38U+11A3BU+11A3CU+11A3DU+11A3EU+11A47U+11A51",
          "U+11A52U+11A53U+11A54U+11A55U+11A56U+11A59U+11A5AU+11A5BU+11A8AU+11A8BU+11A8CU+11A8DU+11A8EU+11A8FU+11A90",
          "U+11A91U+11A92U+11A93U+11A94U+11A95U+11A96U+11A98U+11A99U+11C30U+11C31U+11C32U+11C33U+11C34U+11C35U+11C36",
          "U+11C38U+11C39U+11C3AU+11C3BU+11C3CU+11C3DU+11C3FU+11C92U+11C93U+11C94U+11C95U+11C96U+11C97U+11C98U+11C99",
          "U+11C9AU+11C9BU+11C9CU+11C9DU+11C9EU+11C9FU+11CA0U+11CA1U+11CA2U+11CA3U+11CA4U+11CA5U+11CA6U+11CA7U+11CAA",
          "U+11CABU+11CACU+11CADU+11CAEU+11CAFU+11CB0U+11CB2U+11CB3U+11CB5U+11CB6U+11D31U+11D32U+11D33U+11D34U+11D35",
          "U+11D36U+11D3AU+11D3CU+11D3DU+11D3FU+11D40U+11D41U+11D42U+11D43U+11D44U+11D45U+11D47U+11D90U+11D91U+11D95",
          "U+11D97U+11EF3U+11EF4U+13430U+13431U+13432U+13433U+13434U+13435U+13436U+13437U+13438U+16AF0U+16AF1U+16AF2",
          "U+16AF3U+16AF4U+16B30U+16B31U+16B32U+16B33U+16B34U+16B35U+16B36U+16B40U+16B41U+16B42U+16B43U+16F4FU+16F8F",
          "U+16F90U+16F91U+16F92U+16F93U+16F94U+16F95U+16F96U+16F97U+16F98U+16F99U+16F9AU+16F9BU+16F9CU+16F9DU+16F9E",
          "U+16F9FU+16FE0U+16FE1U+16FE3U+16FE4U+1AFF0U+1AFF1U+1AFF2U+1AFF3U+1AFF5U+1AFF6U+1AFF7U+1AFF8U+1AFF9U+1AFFA",
          "U+1AFFBU+1AFFDU+1AFFEU+1BC9DU+1BC9EU+1BCA0U+1BCA1U+1BCA2U+1BCA3U+1CF00U+1CF01U+1CF02U+1CF03U+1CF04U+1CF05",
          "U+1CF06U+1CF07U+1CF08U+1CF09U+1CF0AU+1CF0BU+1CF0CU+1CF0DU+1CF0EU+1CF0FU+1CF10U+1CF11U+1CF12U+1CF13U+1CF14",
          "U+1CF15U+1CF16U+1CF17U+1CF18U+1CF19U+1CF1AU+1CF1BU+1CF1CU+1CF1DU+1CF1EU+1CF1FU+1CF20U+1CF21U+1CF22U+1CF23",
          "U+1CF24U+1CF25U+1CF26U+1CF27U+1CF28U+1CF29U+1CF2AU+1CF2BU+1CF2CU+1CF2DU+1CF30U+1CF31U+1CF32U+1CF33U+1CF34",
          "U+1CF35U+1CF36U+1CF37U+1CF38U+1CF39U+1CF3AU+1CF3BU+1CF3CU+1CF3DU+1CF3EU+1CF3FU+1CF40U+1CF41U+1CF42U+1CF43",
          "U+1CF44U+1CF45U+1CF46U+1D167U+1D168U+1D169U+1D173U+1D174U+1D175U+1D176U+1D177U+1D178U+1D179U+1D17AU+1D17B",
          "U+1D17CU+1D17DU+1D17EU+1D17FU+1D180U+1D181U+1D182U+1D185U+1D186U+1D187U+1D188U+1D189U+1D18AU+1D18BU+1D1AA",
          "U+1D1ABU+1D1ACU+1D1ADU+1D242U+1D243U+1D244U+1DA00U+1DA01U+1DA02U+1DA03U+1DA04U+1DA05U+1DA06U+1DA07U+1DA08",
          "U+1DA09U+1DA0AU+1DA0BU+1DA0CU+1DA0DU+1DA0EU+1DA0FU+1DA10U+1DA11U+1DA12U+1DA13U+1DA14U+1DA15U+1DA16U+1DA17",
          "U+1DA18U+1DA19U+1DA1AU+1DA1BU+1DA1CU+1DA1DU+1DA1EU+1DA1FU+1DA20U+1DA21U+1DA22U+1DA23U+1DA24U+1DA25U+1DA26",
          "U+1DA27U+1DA28U+1DA29U+1DA2AU+1DA2BU+1DA2CU+1DA2DU+1DA2EU+1DA2FU+1DA30U+1DA31U+1DA32U+1DA33U+1DA34U+1DA35",
          "U+1DA36U+1DA3BU+1DA3CU+1DA3DU+1DA3EU+1DA3FU+1DA40U+1DA41U+1DA42U+1DA43U+1DA44U+1DA45U+1DA46U+1DA47U+1DA48",
          "U+1DA49U+1DA4AU+1DA4BU+1DA4CU+1DA4DU+1DA4EU+1DA4FU+1DA50U+1DA51U+1DA52U+1DA53U+1DA54U+1DA55U+1DA56U+1DA57",
          "U+1DA58U+1DA59U+1DA5AU+1DA5BU+1DA5CU+1DA5DU+1DA5EU+1DA5FU+1DA60U+1DA61U+1DA62U+1DA63U+1DA64U+1DA65U+1DA66",
          "U+1DA67U+1DA68U+1DA69U+1DA6AU+1DA6BU+1DA6CU+1DA75U+1DA84U+1DA9BU+1DA9CU+1DA9DU+1DA9EU+1DA9FU+1DAA1U+1DAA2",
          "U+1DAA3U+1DAA4U+1DAA5U+1DAA6U+1DAA7U+1DAA8U+1DAA9U+1DAAAU+1DAABU+1DAACU+1DAADU+1DAAEU+1DAAFU+1E000U+1E001",
          "U+1E002U+1E003U+1E004U+1E005U+1E006U+1E008U+1E009U+1E00AU+1E00BU+1E00CU+1E00DU+1E00EU+1E00FU+1E010U+1E011",
          "U+1E012U+1E013U+1E014U+1E015U+1E016U+1E017U+1E018U+1E01BU+1E01CU+1E01DU+1E01EU+1E01FU+1E020U+1E021U+1E023",
          "U+1E024U+1E026U+1E027U+1E028U+1E029U+1E02AU+1E130U+1E131U+1E132U+1E133U+1E134U+1E135U+1E136U+1E137U+1E138",
          "U+1E139U+1E13AU+1E13BU+1E13CU+1E13DU+1E2AEU+1E2ECU+1E2EDU+1E2EEU+1E2EFU+1E8D0U+1E8D1U+1E8D2U+1E8D3U+1E8D4",
          "U+1E8D5U+1E8D6U+1E944U+1E945U+1E946U+1E947U+1E948U+1E949U+1E94AU+1E94BU+1F3FBU+1F3FCU+1F3FDU+1F3FEU+1F3FF",
          "U+E0001U+E0020U+E0021U+E0022U+E0023U+E0024U+E0025U+E0026U+E0027U+E0028U+E0029U+E002AU+E002BU+E002CU+E002D",
          "U+E002EU+E002FU+E0030U+E0031U+E0032U+E0033U+E0034U+E0035U+E0036U+E0037U+E0038U+E0039U+E003AU+E003BU+E003C",
          "U+E003DU+E003EU+E003FU+E0040U+E0041U+E0042U+E0043U+E0044U+E0045U+E0046U+E0047U+E0048U+E0049U+E004AU+E004B",
          "U+E004CU+E004DU+E004EU+E004FU+E0050U+E0051U+E0052U+E0053U+E0054U+E0055U+E0056U+E0057U+E0058U+E0059U+E005A",
          "U+E005BU+E005CU+E005DU+E005EU+E005FU+E0060U+E0061U+E0062U+E0063U+E0064U+E0065U+E0066U+E0067U+E0068U+E0069",
          "U+E006AU+E006BU+E006CU+E006DU+E006EU+E006FU+E0070U+E0071U+E0072U+E0073U+E0074U+E0075U+E0076U+E0077U+E0078",
          "U+E0079U+E007AU+E007BU+E007CU+E007DU+E007EU+E007FU+E0100U+E0101U+E0102U+E0103U+E0104U+E0105U+E0106U+E0107",
          "U+E0108U+E0109U+E010AU+E010BU+E010CU+E010DU+E010EU+E010FU+E0110U+E0111U+E0112U+E0113U+E0114U+E0115U+E0116",
          "U+E0117U+E0118U+E0119U+E011AU+E011BU+E011CU+E011DU+E011EU+E011FU+E0120U+E0121U+E0122U+E0123U+E0124U+E0125",
          "U+E0126U+E0127U+E0128U+E0129U+E012AU+E012BU+E012CU+E012DU+E012EU+E012FU+E0130U+E0131U+E0132U+E0133U+E0134",
          "U+E0135U+E0136U+E0137U+E0138U+E0139U+E013AU+E013BU+E013CU+E013DU+E013EU+E013FU+E0140U+E0141U+E0142U+E0143",
          "U+E0144U+E0145U+E0146U+E0147U+E0148U+E0149U+E014AU+E014BU+E014CU+E014DU+E014EU+E014FU+E0150U+E0151U+E0152",
          "U+E0153U+E0154U+E0155U+E0156U+E0157U+E0158U+E0159U+E015AU+E015BU+E015CU+E015DU+E015EU+E015FU+E0160U+E0161",
          "U+E0162U+E0163U+E0164U+E0165U+E0166U+E0167U+E0168U+E0169U+E016AU+E016BU+E016CU+E016DU+E016EU+E016FU+E0170",
          "U+E0171U+E0172U+E0173U+E0174U+E0175U+E0176U+E0177U+E0178U+E0179U+E017AU+E017BU+E017CU+E017DU+E017EU+E017F",
          "U+E0180U+E0181U+E0182U+E0183U+E0184U+E0185U+E0186U+E0187U+E0188U+E0189U+E018AU+E018BU+E018CU+E018DU+E018E",
          "U+E018FU+E0190U+E0191U+E0192U+E0193U+E0194U+E0195U+E0196U+E0197U+E0198U+E0199U+E019AU+E019BU+E019CU+E019D",
          "U+E019EU+E019FU+E01A0U+E01A1U+E01A2U+E01A3U+E01A4U+E01A5U+E01A6U+E01A7U+E01A8U+E01A9U+E01AAU+E01ABU+E01AC",
          "U+E01ADU+E01AEU+E01AFU+E01B0U+E01B1U+E01B2U+E01B3U+E01B4U+E01B5U+E01B6U+E01B7U+E01B8U+E01B9U+E01BAU+E01BB",
          "U+E01BCU+E01BDU+E01BEU+E01BFU+E01C0U+E01C1U+E01C2U+E01C3U+E01C4U+E01C5U+E01C6U+E01C7U+E01C8U+E01C9U+E01CA",
          "U+E01CBU+E01CCU+E01CDU+E01CEU+E01CFU+E01D0U+E01D1U+E01D2U+E01D3U+E01D4U+E01D5U+E01D6U+E01D7U+E01D8U+E01D9",
          "U+E01DAU+E01DBU+E01DCU+E01DDU+E01DEU+E01DFU+E01E0U+E01E1U+E01E2U+E01E3U+E01E4U+E01E5U+E01E6U+E01E7U+E01E8",
          "U+E01E9U+E01EAU+E01EBU+E01ECU+E01EDU+E01EEU+E01EF">>, 7)}

\* c |-> <<c.lower(), c.title()>> on the code points one of the two changes. The
\* lines list the ones that become a single code point, as fields c, c.lower(),
\* c.title(); changes lists the ones that become several
CASE_MAP ==
    LET lines ==
        <<"A      a      A      B      b      B      C      c      C      D      d      D      E      e      E      ",
          "F      f      F      G      g      G      H      h      H      I      i      I      J      j      J      ",
          "K      k      K      L      l      L      M      m      M      N      n      N      O      o      O      ",
          "P      p      P      Q      q      Q      R      r      R      S      s      S      T      t      T      ",
          "U      u      U      V      v      V      W      w      W      X      x      X      Y      y      Y      ",
          "Z      z      Z      a      a      A      b      b      B      c      c      C      d      d      D      ",
          "e      e      E      f      f      F      g      g      G      h      h      H      i      i      I      ",
          "j      j      J      k      k      K      l      l      L      m      m      M      n      n      N      ",
          "o      o      O      p      p      P      q      q      Q      r      r      R      s      s      S      ",
          "t      t      T      u      u      U      v      v      V      w      w      W      x      x      X      ",
          "y      y      Y      z      z      Z      U+00B5 U+00B5 U+039C U+00C0 U+00E0 U+00C0 U+00C1 U+00E1 U+00C1 ",
          "U+00C2 U+00E2 U+00C2 U+00C3 U+00E3 U+00C3 U+00C4 U+00E4 U+00C4 U+00C5 U+00E5 U+00C5 U+00C6 U+00E6 U+00C6 ",
          "U+00C7 U+00E7 U+00C7 U+00C8 U+00E8 U+00C8 U+00C9 U+00E9 U+00C9 U+00CA U+00EA U+00CA U+00CB U+00EB U+00CB ",
          "U+00CC U+00EC U+00CC U+00CD U+00ED U+00CD U+00CE U+00EE U+00CE U+00CF U+00EF U+00CF U+00D0 U+00F0 U+00D0 ",
          "U+00D1 U+00F1 U+00D1 U+00D2 U+00F2 U+00D2 U+00D3 U+00F3 U+00D3 U+00D4 U+00F4 U+00D4 U+00D5 U+00F5 U+00D5 ",
          "U+00D6 U+00F6 U+00D6 U+00D8 U+00F8 U+00D8 U+00D9 U+00F9 U+00D9 U+00DA U+00FA U+00DA U+00DB U+00FB U+00DB ",
          "U+00DC U+00FC U+00DC U+00DD U+00FD U+00DD U+00DE U+00FE U+00DE U+00E0 U+00E0 U+00C0 U+00E1 U+00E1 U+00C1 ",
          "U+00E2 U+00E2 U+00C2 U+00E3 U+00E3 U+00C3 U+00E4 U+00E4 U+00C4 U+00E5 U+00E5 U+00C5 U+00E6 U+00E6 U+00C6 ",
          "U+00E7 U+00E7 U+00C7 U+00E8 U+00E8 U+00C8 U+00E9 U+00E9 U+00C9 U+00EA U+00EA U+00CA U+00EB U+00EB U+00CB ",
          "U+00EC U+00EC U+00CC U+00ED U+00ED U+00CD U+00EE U+00EE U+00CE U+00EF U+00EF U+00CF U+00F0 U+00F0 U+00D0 ",
          "U+00F1 U+00F1 U+00D1 U+00F2 U+00F2 U+00D2 U+00F3 U+00F3 U+00D3 U+00F4 U+00F4 U+00D4 U+00F5 U+00F5 U+00D5 ",
          "U+00F6 U+00F6 U+00D6 U+00F8 U+00F8 U+00D8 U+00F9 U+00F9 U+00D9 U+00FA U+00FA U+00DA U+00FB U+00FB U+00DB ",
          "U+00FC U+00FC U+00DC U+00FD U+00FD U+00DD U+00FE U+00FE U+00DE U+00FF U+00FF U+0178 U+0100 U+0101 U+0100 ",
          "U+0101 U+0101 U+0100 U+0102 U+0103 U+0102 U+0103 U+0103 U+0102 U+0104 U+0105 U+0104 U+0105 U+0105 U+0104 ",
          "U+0106 U+0107 U+0106 U+0107 U+0107 U+0106 U+0108 U+0109 U+0108 U+0109 U+0109 U+0108 U+010A U+010B U+010A ",
          "U+010B U+010B U+010A U+010C U+010D U+010C U+010D U+010D U+010C U+010E U+010F U+010E U+010F U+010F U+010E ",
          "U+0110 U+0111 U+0110 U+0111 U+0111 U+0110 U+0112 U+0113 U+0112 U+0113 U+0113 U+0112 U+0114 U+0115 U+0114 ",
          "U+0115 U+0115 U+0114 U+0116 U+0117 U+0116 U+0117 U+0117 U+0116 U+0118 U+0119 U+0118 U+0119 U+0119 U+0118 ",
          "U+011A U+011B U+011A U+011B U+011B U+011A U+011C U+011D U+011C U+011D U+011D U+011C U+011E U+011F U+011E ",
          "U+011F U+011F U+011E U+0120 U+0121 U+0120 U+0121 U+0121 U+0120 U+0122 U+0123 U+0122 U+0123 U+0123 U+0122 ",
          "U+0124 U+0125 U+0124 U+0125 U+0125 U+0124 U+0126 U+0127 U+0126 U+0127 U+0127 U+0126 U+0128 U+0129 U+0128 ",
          "U+0129 U+0129 U+0128 U+012A U+012B U+012A U+012B U+012B U+012A U+012C U+012D U+012C U+012D U+012D U+012C ",
          "U+012E U+012F U+012E U+012F U+012F U+012E U+0131 U+0131 I      U+0132 U+0133 U+0132 U+0133 U+0133 U+0132 ",
          "U+0134 U+0135 U+0134 U+0135 U+0135 U+0134 U+0136 U+0137 U+0136 U+0137 U+0137 U+0136 U+0139 U+013A U+0139 ",
          "U+013A U+013A U+0139 U+013B U+013C U+013B U+013C U+013C U+013B U+013D U+013E U+013D U+013E U+013E U+013D ",
          "U+013F U+0140 U+013F U+0140 U+0140 U+013F U+0141 U+0142 U+0141 U+0142 U+0142 U+0141 U+0143 U+0144 U+0143 ",
          "U+0144 U+0144 U+0143 U+0145 U+0146 U+0145 U+0146 U+0146 U+0145 U+0147 U+0148 U+0147 U+0148 U+0148 U+0147 ",
          "U+014A U+014B U+014A U+014B U+014B U+014A U+014C U+014D U+014C U+014D U+014D U+014C U+014E U+014F U+014E ",
          "U+014F U+014F U+014E U+0150 U+0151 U+0150 U+0151 U+0151 U+0150 U+0152 U+0153 U+0152 U+0153 U+0153 U+0152 ",
          "U+0154 U+0155 U+0154 U+0155 U+0155 U+0154 U+0156 U+0157 U+0156 U+0157 U+0157 U+0156 U+0158 U+0159 U+0158 ",
          "U+0159 U+0159 U+0158 U+015A U+015B U+015A U+015B U+015B U+015A U+015C U+015D U+015C U+015D U+015D U+015C ",
          "U+015E U+015F U+015E U+015F U+015F U+015E U+0160 U+0161 U+0160 U+0161 U+0161 U+0160 U+0162 U+0163 U+0162 ",
          "U+0163 U+0163 U+0162 U+0164 U+0165 U+0164 U+0165 U+0165 U+0164 U+0166 U+0167 U+0166 U+0167 U+0167 U+0166 ",
          "U+0168 U+0169 U+0168 U+0169 U+0169 U+0168 U+016A U+016B U+016A U+016B U+016B U+016A U+016C U+016D U+016C ",
          "U+016D U+016D U+016C U+016E U+016F U+016E U+016F U+016F U+016E U+0170 U+0171 U+0170 U+0171 U+0171 U+0170 ",
          "U+0172 U+0173 U+0172 U+0173 U+0173 U+0172 U+0174 U+0175 U+0174 U+0175 U+0175 U+0174 U+0176 U+0177 U+0176 ",
          "U+0177 U+0177 U+0176 U+0178 U+00FF U+0178 U+0179 U+017A U+0179 U+017A U+017A U+0179 U+017B U+017C U+017B ",
          "U+017C U+017C U+017B U+017D U+017E U+017D U+017E U+017E U+017D U+017F U+017F S      U+0180 U+0180 U+0243 ",
          "U+0181 U+0253 U+0181 U+0182 U+0183 U+0182 U+0183 U+0183 U+0182 U+0184 U+0185 U+0184 U+0185 U+0185 U+0184 ",
          "U+0186 U+0254 U+0186 U+0187 U+0188 U+0187 U+0188 U+0188 U+0187 U+0189 U+0256 U+0189 U+018A U+0257 U+018A ",
          "U+018B U+018C U+018B U+018C U+018C U+018B U+018E U+01DD U+018E U+018F U+0259 U+018F U+0190 U+025B U+0190 ",
          "U+0191 U+0192 U+0191 U+0192 U+0192 U+0191 U+0193 U+0260 U+0193 U+0194 U+0263 U+0194 U+0195 U+0195 U+01F6 ",
          "U+0196 U+0269 U+0196 U+0197 U+0268 U+0197 U+0198 U+0199 U+0198 U+0199 U+0199 U+0198 U+019A U+019A U+023D ",
          "U+019C U+026F U+019C U+019D U+0272 U+019D U+019E U+019E U+0220 U+019F U+0275 U+019F U+01A0 U+01A1 U+01A0 ",
          "U+01A1 U+01A1 U+01A0 U+01A2 U+01A3 U+01A2 U+01A3 U+01A3 U+01A2 U+01A4 U+01A5 U+01A4 U+01A5 U+01A5 U+01A4 ",
          "U+01A6 U+0280 U+01A6 U+01A7 U+01A8 U+01A7 U+01A8 U+01A8 U+01A7 U+01A9 U+0283 U+01A9 U+01AC U+01AD U+01AC ",
          "U+01AD U+01AD U+01AC U+01AE U+0288 U+01AE U+01AF U+01B0 U+01AF U+01B0 U+01B0 U+01AF U+01B1 U+028A U+01B1 ",
          "U+01B2 U+028B U+01B2 U+01B3 U+01B4 U+01B3 U+01B4 U+01B4 U+01B3 U+01B5 U+01B6 U+01B5 U+01B6 U+01B6 U+01B5 ",
          "U+01B7 U+0292 U+01B7 U+01B8 U+01B9 U+01B8 U+01B9 U+01B9 U+01B8 U+01BC U+01BD U+01BC U+01BD U+01BD U+01BC ",
          "U+01BF U+01BF U+01F7 U+01C4 U+01C6 U+01C5 U+01C5 U+01C6 U+01C5 U+01C6 U+01C6 U+01C5 U+01C7 U+01C9 U+01C8 ",
          "U+01C8 U+01C9 U+01C8 U+01C9 U+01C9 U+01C8 U+01CA U+01CC U+01CB U+01CB U+01CC U+01CB U+01CC U+01CC U+01CB ",
          "U+01CD U+01CE U+01CD U+01CE U+01CE U+01CD U+01CF U+01D0 U+01CF U+01D0 U+01D0 U+01CF U+01D1 U+01D2 U+01D1 ",
          "U+01D2 U+01D2 U+01D1 U+01D3 U+01D4 U+01D3 U+01D4 U+01D4 U+01D3 U+01D5 U+01D6 U+01D5 U+01D6 U+01D6 U+01D5 ",
          "U+01D7 U+01D8 U+01D7 U+01D8 U+01D8 U+01D7 U+01D9 U+01DA U+01D9 U+01DA U+01DA U+01D9 U+01DB U+01DC U+01DB ",
          "U+01DC U+01DC U+01DB U+01DD U+01DD U+018E U+01DE U+01DF U+01DE U+01DF U+01DF U+01DE U+01E0 U+01E1 U+01E0 ",
          "U+01E1 U+01E1 U+01E0 U+01E2 U+01E3 U+01E2 U+01E3 U+01E3 U+01E2 U+01E4 U+01E5 U+01E4 U+01E5 U+01E5 U+01E4 ",
          "U+01E6 U+01E7 U+01E6 U+01E7 U+01E7 U+01E6 U+01E8 U+01E9 U+01E8 U+01E9 U+01E9 U+01E8 U+01EA U+01EB U+01EA ",
          "U+01EB U+01EB U+01EA U+01EC U+01ED U+01EC U+01ED U+01ED U+01EC U+01EE U+01EF U+01EE U+01EF U+01EF U+01EE ",
          "U+01F1 U+01F3 U+01F2 U+01F2 U+01F3 U+01F2 U+01F3 U+01F3 U+01F2 U+01F4 U+01F5 U+01F4 U+01F5 U+01F5 U+01F4 ",
          "U+01F6 U+0195 U+01F6 U+01F7 U+01BF U+01F7 U+01F8 U+01F9 U+01F8 U+01F9 U+01F9 U+01F8 U+01FA U+01FB U+01FA ",
          "U+01FB U+01FB U+01FA U+01FC U+01FD U+01FC U+01FD U+01FD U+01FC U+01FE U+01FF U+01FE U+01FF U+01FF U+01FE ",
          "U+0200 U+0201 U+0200 U+0201 U+0201 U+0200 U+0202 U+0203 U+0202 U+0203 U+0203 U+0202 U+0204 U+0205 U+0204 ",
          "U+0205 U+0205 U+0204 U+0206 U+0207 U+0206 U+0207 U+0207 U+0206 U+0208 U+0209 U+0208 U+0209 U+0209 U+0208 ",
          "U+020A U+020B U+020A U+020B U+020B U+020A U+020C U+020D U+020C U+020D U+020D U+020C U+020E U+020F U+020E ",
          "U+020F U+020F U+020E U+0210 U+0211 U+0210 U+0211 U+0211 U+0210 U+0212 U+0213 U+0212 U+0213 U+0213 U+0212 ",
          "U+0214 U+0215 U+0214 U+0215 U+0215 U+0214 U+0216 U+0217 U+0216 U+0217 U+0217 U+0216 U+0218 U+0219 U+0218 ",
          "U+0219 U+0219 U+0218 U+021A U+021B U+021A U+021B U+021B U+021A U+021C U+021D U+021C U+021D U+021D U+021C ",
          "U+021E U+021F U+021E U+021F U+021F U+021E U+0220 U+019E U+0220 U+0222 U+0223 U+0222 U+0223 U+0223 U+0222 ",
          "U+0224 U+0225 U+0224 U+0225 U+0225 U+0224 U+0226 U+0227 U+0226 U+0227 U+0227 U+0226 U+0228 U+0229 U+0228 ",
          "U+0229 U+0229 U+0228 U+022A U+022B U+022A U+022B U+022B U+022A U+022C U+022D U+022C U+022D U+022D U+022C ",
          "U+022E U+022F U+022E U+022F U+022F U+022E U+0230 U+0231 U+0230 U+0231 U+0231 U+0230 U+0232 U+0233 U+0232 ",
          "U+0233 U+0233 U+0232 U+023A U+2C65 U+023A U+023B U+023C U+023B U+023C U+023C U+023B U+023D U+019A U+023D ",
          "U+023E U+2C66 U+023E U+023F U+023F U+2C7E U+0240 U+0240 U+2C7F U+0241 U+0242 U+0241 U+0242 U+0242 U+0241 ",
          "U+0243 U+0180 U+0243 U+0244 U+0289 U+0244 U+0245 U+028C U+0245 U+0246 U+0247 U+0246 U+0247 U+0247 U+0246 ",
          "U+0248 U+0249 U+0248 U+0249 U+0249 U+0248 U+024A U+024B U+024A U+024B U+024B U+024A U+024C U+024D U+024C ",
          "U+024D U+024D U+024C U+024E U+024F U+024E U+024F U+024F U+024E U+0250 U+0250 U+2C6F U+0251 U+0251 U+2C6D ",
          "U+0252 U+0252 U+2C70 U+0253 U+0253 U+0181 U+0254 U+0254 U+0186 U+0256 U+0256 U+0189 U+0257 U+0257 U+018A ",
          "U+0259 U+0259 U+018F U+025B U+025B U+0190 U+025C U+025C U+A7AB U+0260 U+0260 U+0193 U+0261 U+0261 U+A7AC ",
          "U+0263 U+0263 U+0194 U+0265 U+0265 U+A78D U+0266 U+0266 U+A7AA U+0268 U+0268 U+0197 U+0269 U+0269 U+0196 ",
          "U+026A U+026A U+A7AE U+026B U+026B U+2C62 U+026C U+026C U+A7AD U+026F U+026F U+019C U+0271 U+0271 U+2C6E ",
          "U+0272 U+0272 U+019D U+0275 U+0275 U+019F U+027D U+027D U+2C64 U+0280 U+0280 U+01A6 U+0282 U+0282 U+A7C5 ",
          "U+0283 U+0283 U+01A9 U+0287 U+0287 U+A7B1 U+0288 U+0288 U+01AE U+0289 U+0289 U+0244 U+028A U+028A U+01B1 ",
          "U+028B U+028B U+01B2 U+028C U+028C U+0245 U+0292 U+0292 U+01B7 U+029D U+029D U+A7B2 U+029E U+029E U+A7B0 ",
          "U+0345 U+0345 U+0399 U+0370 U+0371 U+0370 U+0371 U+0371 U+0370 U+0372 U+0373 U+0372 U+0373 U+0373 U+0372 ",
          "U+0376 U+0377 U+0376 U+0377 U+0377 U+0376 U+037B U+037B U+03FD U+037C U+037C U+03FE U+037D U+037D U+03FF ",
          "U+037F U+03F3 U+037F U+0386 U+03AC U+0386 U+0388 U+03AD U+0388 U+0389 U+03AE U+0389 U+038A U+03AF U+038A ",
          "U+038C U+03CC U+038C U+038E U+03CD U+038E U+038F U+03CE U+038F U+0391 U+03B1 U+0391 U+0392 U+03B2 U+0392 ",
          "U+0393 U+03B3 U+0393 U+0394 U+03B4 U+0394 U+0395 U+03B5 U+0395 U+0396 U+03B6 U+0396 U+0397 U+03B7 U+0397 ",
          "U+0398 U+03B8 U+0398 U+0399 U+03B9 U+0399 U+039A U+03BA U+039A U+039B U+03BB U+039B U+039C U+03BC U+039C ",
          "U+039D U+03BD U+039D U+039E U+03BE U+039E U+039F U+03BF U+039F U+03A0 U+03C0 U+03A0 U+03A1 U+03C1 U+03A1 ",
          "U+03A3 U+03C3 U+03A3 U+03A4 U+03C4 U+03A4 U+03A5 U+03C5 U+03A5 U+03A6 U+03C6 U+03A6 U+03A7 U+03C7 U+03A7 ",
          "U+03A8 U+03C8 U+03A8 U+03A9 U+03C9 U+03A9 U+03AA U+03CA U+03AA U+03AB U+03CB U+03AB U+03AC U+03AC U+0386 ",
          "U+03AD U+03AD U+0388 U+03AE U+03AE U+0389 U+03AF U+03AF U+038A U+03B1 U+03B1 U+0391 U+03B2 U+03B2 U+0392 ",
          "U+03B3 U+03B3 U+0393 U+03B4 U+03B4 U+0394 U+03B5 U+03B5 U+0395 U+03B6 U+03B6 U+0396 U+03B7 U+03B7 U+0397 ",
          "U+03B8 U+03B8 U+0398 U+03B9 U+03B9 U+0399 U+03BA U+03BA U+039A U+03BB U+03BB U+039B U+03BC U+03BC U+039C ",
          "U+03BD U+03BD U+039D U+03BE U+03BE U+039E U+03BF U+03BF U+039F U+03C0 U+03C0 U+03A0 U+03C1 U+03C1 U+03A1 ",
          "U+03C2 U+03C2 U+03A3 U+03C3 U+03C3 U+03A3 U+03C4 U+03C4 U+03A4 U+03C5 U+03C5 U+03A5 U+03C6 U+03C6 U+03A6 ",
          "U+03C7 U+03C7 U+03A7 U+03C8 U+03C8 U+03A8 U+03C9 U+03C9 U+03A9 U+03CA U+03CA U+03AA U+03CB U+03CB U+03AB ",
          "U+03CC U+03CC U+038C U+03CD U+03CD U+038E U+03CE U+03CE U+038F U+03CF U+03D7 U+03CF U+03D0 U+03D0 U+0392 ",
          "U+03D1 U+03D1 U+0398 U+03D5 U+03D5 U+03A6 U+03D6 U+03D6 U+03A0 U+03D7 U+03D7 U+03CF U+03D8 U+03D9 U+03D8 ",
          "U+03D9 U+03D9 U+03D8 U+03DA U+03DB U+03DA U+03DB U+03DB U+03DA U+03DC U+03DD U+03DC U+03DD U+03DD U+03DC ",
          "U+03DE U+03DF U+03DE U+03DF U+03DF U+03DE U+03E0 U+03E1 U+03E0 U+03E1 U+03E1 U+03E0 U+03E2 U+03E3 U+03E2 ",
          "U+03E3 U+03E3 U+03E2 U+03E4 U+03E5 U+03E4 U+03E5 U+03E5 U+03E4 U+03E6 U+03E7 U+03E6 U+03E7 U+03E7 U+03E6 ",
          "U+03E8 U+03E9 U+03E8 U+03E9 U+03E9 U+03E8 U+03EA U+03EB U+03EA U+03EB U+03EB U+03EA U+03EC U+03ED U+03EC ",
          "U+03ED U+03ED U+03EC U+03EE U+03EF U+03EE U+03EF U+03EF U+03EE U+03F0 U+03F0 U+039A U+03F1 U+03F1 U+03A1 ",
          "U+03F2 U+03F2 U+03F9 U+03F3 U+03F3 U+037F U+03F4 U+03B8 U+03F4 U+03F5 U+03F5 U+0395 U+03F7 U+03F8 U+03F7 ",
          "U+03F8 U+03F8 U+03F7 U+03F9 U+03F2 U+03F9 U+03FA U+03FB U+03FA U+03FB U+03FB U+03FA U+03FD U+037B U+03FD ",
          "U+03FE U+037C U+03FE U+03FF U+037D U+03FF U+0400 U+0450 U+0400 U+0401 U+0451 U+0401 U+0402 U+0452 U+0402 ",
          "U+0403 U+0453 U+0403 U+0404 U+0454 U+0404 U+0405 U+0455 U+0405 U+0406 U+0456 U+0406 U+0407 U+0457 U+0407 ",
          "U+0408 U+0458 U+0408 U+0409 U+0459 U+0409 U+040A U+045A U+040A U+040B U+045B U+040B U+040C U+045C U+040C ",
          "U+040D U+045D U+040D U+040E U+045E U+040E U+040F U+045F U+040F U+0410 U+0430 U+0410 U+0411 U+0431 U+0411 ",
          "U+0412 U+0432 U+0412 U+0413 U+0433 U+0413 U+0414 U+0434 U+0414 U+0415 U+0435 U+0415 U+0416 U+0436 U+0416 ",
          "U+0417 U+0437 U+0417 U+0418 U+0438 U+0418 U+0419 U+0439 U+0419 U+041A U+043A U+041A U+041B U+043B U+041B ",
          "U+041C U+043C U+041C U+041D U+043D U+041D U+041E U+043E U+041E U+041F U+043F U+041F U+0420 U+0440 U+0420 ",
          "U+0421 U+0441 U+0421 U+0422 U+0442 U+0422 U+0423 U+0443 U+0423 U+0424 U+0444 U+0424 U+0425 U+0445 U+0425 ",
          "U+0426 U+0446 U+0426 U+0427 U+0447 U+0427 U+0428 U+0448 U+0428 U+0429 U+0449 U+0429 U+042A U+044A U+042A ",
          "U+042B U+044B U+042B U+042C U+044C U+042C U+042D U+044D U+042D U+042E U+044E U+042E U+042F U+044F U+042F ",
          "U+0430 U+0430 U+0410 U+0431 U+0431 U+0411 U+0432 U+0432 U+0412 U+0433 U+0433 U+0413 U+0434 U+0434 U+0414 ",
          "U+0435 U+0435 U+0415 U+0436 U+0436 U+0416 U+0437 U+0437 U+0417 U+0438 U+0438 U+0418 U+0439 U+0439 U+0419 ",
          "U+043A U+043A U+041A U+043B U+043B U+041B U+043C U+043C U+041C U+043D U+043D U+041D U+043E U+043E U+041E ",
          "U+043F U+043F U+041F U+0440 U+0440 U+0420 U+0441 U+0441 U+0421 U+0442 U+0442 U+0422 U+0443 U+0443 U+0423 ",
          "U+0444 U+0444 U+0424 U+0445 U+0445 U+0425 U+0446 U+0446 U+0426 U+0447 U+0447 U+0427 U+0448 U+0448 U+0428 ",
          "U+0449 U+0449 U+0429 U+044A U+044A U+042A U+044B U+044B U+042B U+044C U+044C U+042C U+044D U+044D U+042D ",
          "U+044E U+044E U+042E U+044F U+044F U+042F U+0450 U+0450 U+0400 U+0451 U+0451 U+0401 U+0452 U+0452 U+0402 ",
          "U+0453 U+0453 U+0403 U+0454 U+0454 U+0404 U+0455 U+0455 U+0405 U+0456 U+0456 U+0406 U+0457 U+0457 U+0407 ",
          "U+0458 U+0458 U+0408 U+0459 U+0459 U+0409 U+045A U+045A U+040A U+045B U+045B U+040B U+045C U+045C U+040C ",
          "U+045D U+045D U+040D U+045E U+045E U+040E U+045F U+045F U+040F U+0460 U+0461 U+0460 U+0461 U+0461 U+0460 ",
          "U+0462 U+0463 U+0462 U+0463 U+0463 U+0462 U+0464 U+0465 U+0464 U+0465 U+0465 U+0464 U+0466 U+0467 U+0466 ",
          "U+0467 U+0467 U+0466 U+0468 U+0469 U+0468 U+0469 U+0469 U+0468 U+046A U+046B U+046A U+046B U+046B U+046A ",
          "U+046C U+046D U+046C U+046D U+046D U+046C U+046E U+046F U+046E U+046F U+046F U+046E U+0470 U+0471 U+0470 ",
          "U+0471 U+0471 U+0470 U+0472 U+0473 U+0472 U+0473 U+0473 U+0472 U+0474 U+0475 U+0474 U+0475 U+0475 U+0474 ",
          "U+0476 U+0477 U+0476 U+0477 U+0477 U+0476 U+0478 U+0479 U+0478 U+0479 U+0479 U+0478 U+047A U+047B U+047A ",
          "U+047B U+047B U+047A U+047C U+047D U+047C U+047D U+047D U+047C U+047E U+047F U+047E U+047F U+047F U+047E ",
          "U+0480 U+0481 U+0480 U+0481 U+0481 U+0480 U+048A U+048B U+048A U+048B U+048B U+048A U+048C U+048D U+048C ",
          "U+048D U+048D U+048C U+048E U+048F U+048E U+048F U+048F U+048E U+0490 U+0491 U+0490 U+0491 U+0491 U+0490 ",
          "U+0492 U+0493 U+0492 U+0493 U+0493 U+0492 U+0494 U+0495 U+0494 U+0495 U+0495 U+0494 U+0496 U+0497 U+0496 ",
          "U+0497 U+0497 U+0496 U+0498 U+0499 U+0498 U+0499 U+0499 U+0498 U+049A U+049B U+049A U+049B U+049B U+049A ",
          "U+049C U+049D U+049C U+049D U+049D U+049C U+049E U+049F U+049E U+049F U+049F U+049E U+04A0 U+04A1 U+04A0 ",
          "U+04A1 U+04A1 U+04A0 U+04A2 U+04A3 U+04A2 U+04A3 U+04A3 U+04A2 U+04A4 U+04A5 U+04A4 U+04A5 U+04A5 U+04A4 ",
          "U+04A6 U+04A7 U+04A6 U+04A7 U+04A7 U+04A6 U+04A8 U+04A9 U+04A8 U+04A9 U+04A9 U+04A8 U+04AA U+04AB U+04AA ",
          "U+04AB U+04AB U+04AA U+04AC U+04AD U+04AC U+04AD U+04AD U+04AC U+04AE U+04AF U+04AE U+04AF U+04AF U+04AE ",
          "U+04B0 U+04B1 U+04B0 U+04B1 U+04B1 U+04B0 U+04B2 U+04B3 U+04B2 U+04B3 U+04B3 U+04B2 U+04B4 U+04B5 U+04B4 ",
          "U+04B5 U+04B5 U+04B4 U+04B6 U+04B7 U+04B6 U+04B7 U+04B7 U+04B6 U+04B8 U+04B9 U+04B8 U+04B9 U+04B9 U+04B8 ",
          "U+04BA U+04BB U+04BA U+04BB U+04BB U+04BA U+04BC U+04BD U+04BC U+04BD U+04BD U+04BC U+04BE U+04BF U+04BE ",
          "U+04BF U+04BF U+04BE U+04C0 U+04CF U+04C0 U+04C1 U+04C2 U+04C1 U+04C2 U+04C2 U+04C1 U+04C3 U+04C4 U+04C3 ",
          "U+04C4 U+04C4 U+04C3 U+04C5 U+04C6 U+04C5 U+04C6 U+04C6 U+04C5 U+04C7 U+04C8 U+04C7 U+04C8 U+04C8 U+04C7 ",
          "U+04C9 U+04CA U+04C9 U+04CA U+04CA U+04C9 U+04CB U+04CC U+04CB U+04CC U+04CC U+04CB U+04CD U+04CE U+04CD ",
          "U+04CE U+04CE U+04CD U+04CF U+04CF U+04C0 U+04D0 U+04D1 U+04D0 U+04D1 U+04D1 U+04D0 U+04D2 U+04D3 U+04D2 ",
          "U+04D3 U+04D3 U+04D2 U+04D4 U+04D5 U+04D4 U+04D5 U+04D5 U+04D4 U+04D6 U+04D7 U+04D6 U+04D7 U+04D7 U+04D6 ",
          "U+04D8 U+04D9 U+04D8 U+04D9 U+04D9 U+04D8 U+04DA U+04DB U+04DA U+04DB U+04DB U+04DA U+04DC U+04DD U+04DC ",
          "U+04DD U+04DD U+04DC U+04DE U+04DF U+04DE U+04DF U+04DF U+04DE U+04E0 U+04E1 U+04E0 U+04E1 U+04E1 U+04E0 ",
          "U+04E2 U+04E3 U+04E2 U+04E3 U+04E3 U+04E2 U+04E4 U+04E5 U+04E4 U+04E5 U+04E5 U+04E4 U+04E6 U+04E7 U+04E6 ",
          "U+04E7 U+04E7 U+04E6 U+04E8 U+04E9 U+04E8 U+04E9 U+04E9 U+04E8 U+04EA U+04EB U+04EA U+04EB U+04EB U+04EA ",
          "U+04EC U+04ED U+04EC U+04ED U+04ED U+04EC U+04EE U+04EF U+04EE U+04EF U+04EF U+04EE U+04F0 U+04F1 U+04F0 ",
          "U+04F1 U+04F1 U+04F0 U+04F2 U+04F3 U+04F2 U+04F3 U+04F3 U+04F2 U+04F4 U+04F5 U+04F4 U+04F5 U+04F5 U+04F4 ",
          "U+04F6 U+04F7 U+04F6 U+04F7 U+04F7 U+04F6 U+04F8 U+04F9 U+04F8 U+04F9 U+04F9 U+04F8 U+04FA U+04FB U+04FA ",
          "U+04FB U+04FB U+04FA U+04FC U+04FD U+04FC U+04FD U+04FD U+04FC U+04FE U+04FF U+04FE U+04FF U+04FF U+04FE ",
          "U+0500 U+0501 U+0500 U+0501 U+0501 U+0500 U+0502 U+0503 U+0502 U+0503 U+0503 U+0502 U+0504 U+0505 U+0504 ",
          "U+0505 U+0505 U+0504 U+0506 U+0507 U+0506 U+0507 U+0507 U+0506 U+0508 U+0509 U+0508 U+0509 U+0509 U+0508 ",
          "U+050A U+050B U+050A U+050B U+050B U+050A U+050C U+050D U+050C U+050D U+050D U+050C U+050E U+050F U+050E ",
          "U+050F U+050F U+050E U+0510 U+0511 U+0510 U+0511 U+0511 U+0510 U+0512 U+0513 U+0512 U+0513 U+0513 U+0512 ",
          "U+0514 U+0515 U+0514 U+0515 U+0515 U+0514 U+0516 U+0517 U+0516 U+0517 U+0517 U+0516 U+0518 U+0519 U+0518 ",
          "U+0519 U+0519 U+0518 U+051A U+051B U+051A U+051B U+051B U+051A U+051C U+051D U+051C U+051D U+051D U+051C ",
          "U+051E U+051F U+051E U+051F U+051F U+051E U+0520 U+0521 U+0520 U+0521 U+0521 U+0520 U+0522 U+0523 U+0522 ",
          "U+0523 U+0523 U+0522 U+0524 U+0525 U+0524 U+0525 U+0525 U+0524 U+0526 U+0527 U+0526 U+0527 U+0527 U+0526 ",
          "U+0528 U+0529 U+0528 U+0529 U+0529 U+0528 U+052A U+052B U+052A U+052B U+052B U+052A U+052C U+052D U+052C ",
          "U+052D U+052D U+052C U+052E U+052F U+052E U+052F U+052F U+052E U+0531 U+0561 U+0531 U+0532 U+0562 U+0532 ",
          "U+0533 U+0563 U+0533 U+0534 U+0564 U+0534 U+0535 U+0565 U+0535 U+0536 U+0566 U+0536 U+0537 U+0567 U+0537 ",
          "U+0538 U+0568 U+0538 U+0539 U+0569 U+0539 U+053A U+056A U+053A U+053B U+056B U+053B U+053C U+056C U+053C ",
          "U+053D U+056D U+053D U+053E U+056E U+053E U+053F U+056F U+053F U+0540 U+0570 U+0540 U+0541 U+0571 U+0541 ",
          "U+0542 U+0572 U+0542 U+0543 U+0573 U+0543 U+0544 U+0574 U+0544 U+0545 U+0575 U+0545 U+0546 U+0576 U+0546 ",
          "U+0547 U+0577 U+0547 U+0548 U+0578 U+0548 U+0549 U+0579 U+0549 U+054A U+057A U+054A U+054B U+057B U+054B ",
          "U+054C U+057C U+054C U+054D U+057D U+054D U+054E U+057E U+054E U+054F U+057F U+054F U+0550 U+0580 U+0550 ",
          "U+0551 U+0581 U+0551 U+0552 U+0582 U+0552 U+0553 U+0583 U+0553 U+0554 U+0584 U+0554 U+0555 U+0585 U+0555 ",
          "U+0556 U+0586 U+0556 U+0561 U+0561 U+0531 U+0562 U+0562 U+0532 U+0563 U+0563 U+0533 U+0564 U+0564 U+0534 ",
          "U+0565 U+0565 U+0535 U+0566 U+0566 U+0536 U+0567 U+0567 U+0537 U+0568 U+0568 U+0538 U+0569 U+0569 U+0539 ",
          "U+056A U+056A U+053A U+056B U+056B U+053B U+056C U+056C U+053C U+056D U+056D U+053D U+056E U+056E U+053E ",
          "U+056F U+056F U+053F U+0570 U+0570 U+0540 U+0571 U+0571 U+0541 U+0572 U+0572 U+0542 U+0573 U+0573 U+0543 ",
          "U+0574 U+0574 U+0544 U+0575 U+0575 U+0545 U+0576 U+0576 U+0546 U+0577 U+0577 U+0547 U+0578 U+0578 U+0548 ",
          "U+0579 U+0579 U+0549 U+057A U+057A U+054A U+057B U+057B U+054B U+057C U+057C U+054C U+057D U+057D U+054D ",
          "U+057E U+057E U+054E U+057F U+057F U+054F U+0580 U+0580 U+0550 U+0581 U+0581 U+0551 U+0582 U+0582 U+0552 ",
          "U+0583 U+0583 U+0553 U+0584 U+0584 U+0554 U+0585 U+0585 U+0555 U+0586 U+0586 U+0556 U+10A0 U+2D00 U+10A0 ",
          "U+10A1 U+2D01 U+10A1 U+10A2 U+2D02 U+10A2 U+10A3 U+2D03 U+10A3 U+10A4 U+2D04 U+10A4 U+10A5 U+2D05 U+10A5 ",
          "U+10A6 U+2D06 U+10A6 U+10A7 U+2D07 U+10A7 U+10A8 U+2D08 U+10A8 U+10A9 U+2D09 U+10A9 U+10AA U+2D0A U+10AA ",
          "U+10AB U+2D0B U+10AB U+10AC U+2D0C U+10AC U+10AD U+2D0D U+10AD U+10AE U+2D0E U+10AE U+10AF U+2D0F U+10AF ",
          "U+10B0 U+2D10 U+10B0 U+10B1 U+2D11 U+10B1 U+10B2 U+2D12 U+10B2 U+10B3 U+2D13 U+10B3 U+10B4 U+2D14 U+10B4 ",
          "U+10B5 U+2D15 U+10B5 U+10B6 U+2D16 U+10B6 U+10B7 U+2D17 U+10B7 U+10B8 U+2D18 U+10B8 U+10B9 U+2D19 U+10B9 ",
          "U+10BA U+2D1A U+10BA U+10BB U+2D1B U+10BB U+10BC U+2D1C U+10BC U+10BD U+2D1D U+10BD U+10BE U+2D1E U+10BE ",
          "U+10BF U+2D1F U+10BF U+10C0 U+2D20 U+10C0 U+10C1 U+2D21 U+10C1 U+10C2 U+2D22 U+10C2 U+10C3 U+2D23 U+10C3 ",
          "U+10C4 U+2D24 U+10C4 U+10C5 U+2D25 U+10C5 U+10C7 U+2D27 U+10C7 U+10CD U+2D2D U+10CD U+13A0 U+AB70 U+13A0 ",
          "U+13A1 U+AB71 U+13A1 U+13A2 U+AB72 U+13A2 U+13A3 U+AB73 U+13A3 U+13A4 U+AB74 U+13A4 U+13A5 U+AB75 U+13A5 ",
          "U+13A6 U+AB76 U+13A6 U+13A7 U+AB77 U+13A7 U+13A8 U+AB78 U+13A8 U+13A9 U+AB79 U+13A9 U+13AA U+AB7A U+13AA ",
          "U+13AB U+AB7B U+13AB U+13AC U+AB7C U+13AC U+13AD U+AB7D U+13AD U+13AE U+AB7E U+13AE U+13AF U+AB7F U+13AF ",
          "U+13B0 U+AB80 U+13B0 U+13B1 U+AB81 U+13B1 U+13B2 U+AB82 U+13B2 U+13B3 U+AB83 U+13B3 U+13B4 U+AB84 U+13B4 ",
          "U+13B5 U+AB85 U+13B5 U+13B6 U+AB86 U+13B6 U+13B7 U+AB87 U+13B7 U+13B8 U+AB88 U+13B8 U+13B9 U+AB89 U+13B9 ",
          "U+13BA U+AB8A U+13BA U+13BB U+AB8B U+13BB U+13BC U+AB8C U+13BC U+13BD U+AB8D U+13BD U+13BE U+AB8E U+13BE ",
          "U+13BF U+AB8F U+13BF U+13C0 U+AB90 U+13C0 U+13C1 U+AB91 U+13C1 U+13C2 U+AB92 U+13C2 U+13C3 U+AB93 U+13C3 ",
          "U+13C4 U+AB94 U+13C4 U+13C5 U+AB95 U+13C5 U+13C6 U+AB96 U+13C6 U+13C7 U+AB97 U+13C7 U+13C8 U+AB98 U+13C8 ",
          "U+13C9 U+AB99 U+13C9 U+13CA U+AB9A U+13CA U+13CB U+AB9B U+13CB U+13CC U+AB9C U+13CC U+13CD U+AB9D U+13CD ",
          "U+13CE U+AB9E U+13CE U+13CF U+AB9F U+13CF U+13D0 U+ABA0 U+13D0 U+13D1 U+ABA1 U+13D1 U+13D2 U+ABA2 U+13D2 ",
          "U+13D3 U+ABA3 U+13D3 U+13D4 U+ABA4 U+13D4 U+13D5 U+ABA5 U+13D5 U+13D6 U+ABA6 U+13D6 U+13D7 U+ABA7 U+13D7 ",
          "U+13D8 U+ABA8 U+13D8 U+13D9 U+ABA9 U+13D9 U+13DA U+ABAA U+13DA U+13DB U+ABAB U+13DB U+13DC U+ABAC U+13DC ",
          "U+13DD U+ABAD U+13DD U+13DE U+ABAE U+13DE U+13DF U+ABAF U+13DF U+13E0 U+ABB0 U+13E0 U+13E1 U+ABB1 U+13E1 ",
          "U+13E2 U+ABB2 U+13E2 U+13E3 U+ABB3 U+13E3 U+13E4 U+ABB4 U+13E4 U+13E5 U+ABB5 U+13E5 U+13E6 U+ABB6 U+13E6 ",
          "U+13E7 U+ABB7 U+13E7 U+13E8 U+ABB8 U+13E8 U+13E9 U+ABB9 U+13E9 U+13EA U+ABBA U+13EA U+13EB U+ABBB U+13EB ",
          "U+13EC U+ABBC U+13EC U+13ED U+ABBD U+13ED U+13EE U+ABBE U+13EE U+13EF U+ABBF U+13EF U+13F0 U+13F8 U+13F0 ",
          "U+13F1 U+13F9 U+13F1 U+13F2 U+13FA U+13F2 U+13F3 U+13FB U+13F3 U+13F4 U+13FC U+13F4 U+13F5 U+13FD U+13F5 ",
          "U+13F8 U+13F8 U+13F0 U+13F9 U+13F9 U+13F1 U+13FA U+13FA U+13F2 U+13FB U+13FB U+13F3 U+13FC U+13FC U+13F4 ",
          "U+13FD U+13FD U+13F5 U+1C80 U+1C80 U+0412 U+1C81 U+1C81 U+0414 U+1C82 U+1C82 U+041E U+1C83 U+1C83 U+0421 ",
          "U+1C84 U+1C84 U+0422 U+1C85 U+1C85 U+0422 U+1C86 U+1C86 U+042A U+1C87 U+1C87 U+0462 U+1C88 U+1C88 U+A64A ",
          "U+1C90 U+10D0 U+1C90 U+1C91 U+10D1 U+1C91 U+1C92 U+10D2 U+1C92 U+1C93 U+10D3 U+1C93 U+1C94 U+10D4 U+1C94 ",
          "U+1C95 U+10D5 U+1C95 U+1C96 U+10D6 U+1C96 U+1C97 U+10D7 U+1C97 U+1C98 U+10D8 U+1C98 U+1C99 U+10D9 U+1C99 ",
          "U+1C9A U+10DA U+1C9A U+1C9B U+10DB U+1C9B U+1C9C U+10DC U+1C9C U+1C9D U+10DD U+1C9D U+1C9E U+10DE U+1C9E ",
          "U+1C9F U+10DF U+1C9F U+1CA0 U+10E0 U+1CA0 U+1CA1 U+10E1 U+1CA1 U+1CA2 U+10E2 U+1CA2 U+1CA3 U+10E3 U+1CA3 ",
          "U+1CA4 U+10E4 U+1CA4 U+1CA5 U+10E5 U+1CA5 U+1CA6 U+10E6 U+1CA6 U+1CA7 U+10E7 U+1CA7 U+1CA8 U+10E8 U+1CA8 ",
          "U+1CA9 U+10E9 U+1CA9 U+1CAA U+10EA U+1CAA U+1CAB U+10EB U+1CAB U+1CAC U+10EC U+1CAC U+1CAD U+10ED U+1CAD ",
          "U+1CAE U+10EE U+1CAE U+1CAF U+10EF U+1CAF U+1CB0 U+10F0 U+1CB0 U+1CB1 U+10F1 U+1CB1 U+1CB2 U+10F2 U+1CB2 ",
          "U+1CB3 U+10F3 U+1CB3 U+1CB4 U+10F4 U+1CB4 U+1CB5 U+10F5 U+1CB5 U+1CB6 U+10F6 U+1CB6 U+1CB7 U+10F7 U+1CB7 ",
          "U+1CB8 U+10F8 U+1CB8 U+1CB9 U+10F9 U+1CB9 U+1CBA U+10FA U+1CBA U+1CBD U+10FD U+1CBD U+1CBE U+10FE U+1CBE ",
          "U+1CBF U+10FF U+1CBF U+1D79 U+1D79 U+A77D U+1D7D U+1D7D U+2C63 U+1D8E U+1D8E U+A7C6 U+1E00 U+1E01 U+1E00 ",
          "U+1E01 U+1E01 U+1E00 U+1E02 U+1E03 U+1E02 U+1E03 U+1E03 U+1E02 U+1E04 U+1E05 U+1E04 U+1E05 U+1E05 U+1E04 ",
          "U+1E06 U+1E07 U+1E06 U+1E07 U+1E07 U+1E06 U+1E08 U+1E09 U+1E08 U+1E09 U+1E09 U+1E08 U+1E0A U+1E0B U+1E0A ",
          "U+1E0B U+1E0B U+1E0A U+1E0C U+1E0D U+1E0C U+1E0D U+1E0D U+1E0C U+1E0E U+1E0F U+1E0E U+1E0F U+1E0F U+1E0E ",
          "U+1E10 U+1E11 U+1E10 U+1E11 U+1E11 U+1E10 U+1E12 U+1E13 U+1E12 U+1E13 U+1E13 U+1E12 U+1E14 U+1E15 U+1E14 ",
          "U+1E15 U+1E15 U+1E14 U+1E16 U+1E17 U+1E16 U+1E17 U+1E17 U+1E16 U+1E18 U+1E19 U+1E18 U+1E19 U+1E19 U+1E18 ",
          "U+1E1A U+1E1B U+1E1A U+1E1B U+1E1B U+1E1A U+1E1C U+1E1D U+1E1C U+1E1D U+1E1D U+1E1C U+1E1E U+1E1F U+1E1E ",
          "U+1E1F U+1E1F U+1E1E U+1E20 U+1E21 U+1E20 U+1E21 U+1E21 U+1E20 U+1E22 U+1E23 U+1E22 U+1E23 U+1E23 U+1E22 ",
          "U+1E24 U+1E25 U+1E24 U+1E25 U+1E25 U+1E24 U+1E26 U+1E27 U+1E26 U+1E27 U+1E27 U+1E26 U+1E28 U+1E29 U+1E28 ",
          "U+1E29 U+1E29 U+1E28 U+1E2A U+1E2B U+1E2A U+1E2B U+1E2B U+1E2A U+1E2C U+1E2D U+1E2C U+1E2D U+1E2D U+1E2C ",
          "U+1E2E U+1E2F U+1E2E U+1E2F U+1E2F U+1E2E U+1E30 U+1E31 U+1E30 U+1E31 U+1E31 U+1E30 U+1E32 U+1E33 U+1E32 ",
          "U+1E33 U+1E33 U+1E32 U+1E34 U+1E35 U+1E34 U+1E35 U+1E35 U+1E34 U+1E36 U+1E37 U+1E36 U+1E37 U+1E37 U+1E36 ",
          "U+1E38 U+1E39 U+1E38 U+1E39 U+1E39 U+1E38 U+1E3A U+1E3B U+1E3A U+1E3B U+1E3B U+1E3A U+1E3C U+1E3D U+1E3C ",
          "U+1E3D U+1E3D U+1E3C U+1E3E U+1E3F U+1E3E U+1E3F U+1E3F U+1E3E U+1E40 U+1E41 U+1E40 U+1E41 U+1E41 U+1E40 ",
          "U+1E42 U+1E43 U+1E42 U+1E43 U+1E43 U+1E42 U+1E44 U+1E45 U+1E44 U+1E45 U+1E45 U+1E44 U+1E46 U+1E47 U+1E46 ",
          "U+1E47 U+1E47 U+1E46 U+1E48 U+1E49 U+1E48 U+1E49 U+1E49 U+1E48 U+1E4A U+1E4B U+1E4A U+1E4B U+1E4B U+1E4A ",
          "U+1E4C U+1E4D U+1E4C U+1E4D U+1E4D U+1E4C U+1E4E U+1E4F U+1E4E U+1E4F U+1E4F U+1E4E U+1E50 U+1E51 U+1E50 ",
          "U+1E51 U+1E51 U+1E50 U+1E52 U+1E53 U+1E52 U+1E53 U+1E53 U+1E52 U+1E54 U+1E55 U+1E54 U+1E55 U+1E55 U+1E54 ",
          "U+1E56 U+1E57 U+1E56 U+1E57 U+1E57 U+1E56 U+1E58 U+1E59 U+1E58 U+1E59 U+1E59 U+1E58 U+1E5A U+1E5B U+1E5A ",
          "U+1E5B U+1E5B U+1E5A U+1E5C U+1E5D U+1E5C U+1E5D U+1E5D U+1E5C U+1E5E U+1E5F U+1E5E U+1E5F U+1E5F U+1E5E ",
          "U+1E60 U+1E61 U+1E60 U+1E61 U+1E61 U+1E60 U+1E62 U+1E63 U+1E62 U+1E63 U+1E63 U+1E62 U+1E64 U+1E65 U+1E64 ",
          "U+1E65 U+1E65 U+1E64 U+1E66 U+1E67 U+1E66 U+1E67 U+1E67 U+1E66 U+1E68 U+1E69 U+1E68 U+1E69 U+1E69 U+1E68 ",
          "U+1E6A U+1E6B U+1E6A U+1E6B U+1E6B U+1E6A U+1E6C U+1E6D U+1E6C U+1E6D U+1E6D U+1E6C U+1E6E U+1E6F U+1E6E ",
          "U+1E6F U+1E6F U+1E6E U+1E70 U+1E71 U+1E70 U+1E71 U+1E71 U+1E70 U+1E72 U+1E73 U+1E72 U+1E73 U+1E73 U+1E72 ",
          "U+1E74 U+1E75 U+1E74 U+1E75 U+1E75 U+1E74 U+1E76 U+1E77 U+1E76 U+1E77 U+1E77 U+1E76 U+1E78 U+1E79 U+1E78 ",
          "U+1E79 U+1E79 U+1E78 U+1E7A U+1E7B U+1E7A U+1E7B U+1E7B U+1E7A U+1E7C U+1E7D U+1E7C U+1E7D U+1E7D U+1E7C ",
          "U+1E7E U+1E7F U+1E7E U+1E7F U+1E7F U+1E7E U+1E80 U+1E81 U+1E80 U+1E81 U+1E81 U+1E80 U+1E82 U+1E83 U+1E82 ",
          "U+1E83 U+1E83 U+1E82 U+1E84 U+1E85 U+1E84 U+1E85 U+1E85 U+1E84 U+1E86 U+1E87 U+1E86 U+1E87 U+1E87 U+1E86 ",
          "U+1E88 U+1E89 U+1E88 U+1E89 U+1E89 U+1E88 U+1E8A U+1E8B U+1E8A U+1E8B U+1E8B U+1E8A U+1E8C U+1E8D U+1E8C ",
          "U+1E8D U+1E8D U+1E8C U+1E8E U+1E8F U+1E8E U+1E8F U+1E8F U+1E8E U+1E90 U+1E91 U+1E90 U+1E91 U+1E91 U+1E90 ",
          "U+1E92 U+1E93 U+1E92 U+1E93 U+1E93 U+1E92 U+1E94 U+1E95 U+1E94 U+1E95 U+1E95 U+1E94 U+1E9B U+1E9B U+1E60 ",
          "U+1E9E U+00DF U+1E9E U+1EA0 U+1EA1 U+1EA0 U+1EA1 U+1EA1 U+1EA0 U+1EA2 U+1EA3 U+1EA2 U+1EA3 U+1EA3 U+1EA2 ",
          "U+1EA4 U+1EA5 U+1EA4 U+1EA5 U+1EA5 U+1EA4 U+1EA6 U+1EA7 U+1EA6 U+1EA7 U+1EA7 U+1EA6 U+1EA8 U+1EA9 U+1EA8 ",
          "U+1EA9 U+1EA9 U+1EA8 U+1EAA U+1EAB U+1EAA U+1EAB U+1EAB U+1EAA U+1EAC U+1EAD U+1EAC U+1EAD U+1EAD U+1EAC ",
          "U+1EAE U+1EAF U+1EAE U+1EAF U+1EAF U+1EAE U+1EB0 U+1EB1 U+1EB0 U+1EB1 U+1EB1 U+1EB0 U+1EB2 U+1EB3 U+1EB2 ",
          "U+1EB3 U+1EB3 U+1EB2 U+1EB4 U+1EB5 U+1EB4 U+1EB5 U+1EB5 U+1EB4 U+1EB6 U+1EB7 U+1EB6 U+1EB7 U+1EB7 U+1EB6 ",
          "U+1EB8 U+1EB9 U+1EB8 U+1EB9 U+1EB9 U+1EB8 U+1EBA U+1EBB U+1EBA U+1EBB U+1EBB U+1EBA U+1EBC U+1EBD U+1EBC ",
          "U+1EBD U+1EBD U+1EBC U+1EBE U+1EBF U+1EBE U+1EBF U+1EBF U+1EBE U+1EC0 U+1EC1 U+1EC0 U+1EC1 U+1EC1 U+1EC0 ",
          "U+1EC2 U+1EC3 U+1EC2 U+1EC3 U+1EC3 U+1EC2 U+1EC4 U+1EC5 U+1EC4 U+1EC5 U+1EC5 U+1EC4 U+1EC6 U+1EC7 U+1EC6 ",
          "U+1EC7 U+1EC7 U+1EC6 U+1EC8 U+1EC9 U+1EC8 U+1EC9 U+1EC9 U+1EC8 U+1ECA U+1ECB U+1ECA U+1ECB U+1ECB U+1ECA ",
          "U+1ECC U+1ECD U+1ECC U+1ECD U+1ECD U+1ECC U+1ECE U+1ECF U+1ECE U+1ECF U+1ECF U+1ECE U+1ED0 U+1ED1 U+1ED0 ",
          "U+1ED1 U+1ED1 U+1ED0 U+1ED2 U+1ED3 U+1ED2 U+1ED3 U+1ED3 U+1ED2 U+1ED4 U+1ED5 U+1ED4 U+1ED5 U+1ED5 U+1ED4 ",
          "U+1ED6 U+1ED7 U+1ED6 U+1ED7 U+1ED7 U+1ED6 U+1ED8 U+1ED9 U+1ED8 U+1ED9 U+1ED9 U+1ED8 U+1EDA U+1EDB U+1EDA ",
          "U+1EDB U+1EDB U+1EDA U+1EDC U+1EDD U+1EDC U+1EDD U+1EDD U+1EDC U+1EDE U+1EDF U+1EDE U+1EDF U+1EDF U+1EDE ",
          "U+1EE0 U+1EE1 U+1EE0 U+1EE1 U+1EE1 U+1EE0 U+1EE2 U+1EE3 U+1EE2 U+1EE3 U+1EE3 U+1EE2 U+1EE4 U+1EE5 U+1EE4 ",
          "U+1EE5 U+1EE5 U+1EE4 U+1EE6 U+1EE7 U+1EE6 U+1EE7 U+1EE7 U+1EE6 U+1EE8 U+1EE9 U+1EE8 U+1EE9 U+1EE9 U+1EE8 ",
          "U+1EEA U+1EEB U+1EEA U+1EEB U+1EEB U+1EEA U+1EEC U+1EED U+1EEC U+1EED U+1EED U+1EEC U+1EEE U+1EEF U+1EEE ",
          "U+1EEF U+1EEF U+1EEE U+1EF0 U+1EF1 U+1EF0 U+1EF1 U+1EF1 U+1EF0 U+1EF2 U+1EF3 U+1EF2 U+1EF3 U+1EF3 U+1EF2 ",
          "U+1EF4 U+1EF5 U+1EF4 U+1EF5 U+1EF5 U+1EF4 U+1EF6 U+1EF7 U+1EF6 U+1EF7 U+1EF7 U+1EF6 U+1EF8 U+1EF9 U+1EF8 ",
          "U+1EF9 U+1EF9 U+1EF8 U+1EFA U+1EFB U+1EFA U+1EFB U+1EFB U+1EFA U+1EFC U+1EFD U+1EFC U+1EFD U+1EFD U+1EFC ",
          "U+1EFE U+1EFF U+1EFE U+1EFF U+1EFF U+1EFE U+1F00 U+1F00 U+1F08 U+1F01 U+1F01 U+1F09 U+1F02 U+1F02 U+1F0A ",
          "U+1F03 U+1F03 U+1F0B U+1F04 U+1F04 U+1F0C U+1F05 U+1F05 U+1F0D U+1F06 U+1F06 U+1F0E U+1F07 U+1F07 U+1F0F ",
          "U+1F08 U+1F00 U+1F08 U+1F09 U+1F01 U+1F09 U+1F0A U+1F02 U+1F0A U+1F0B U+1F03 U+1F0B U+1F0C U+1F04 U+1F0C ",
          "U+1F0D U+1F05 U+1F0D U+1F0E U+1F06 U+1F0E U+1F0F U+1F07 U+1F0F U+1F10 U+1F10 U+1F18 U+1F11 U+1F11 U+1F19 ",
          "U+1F12 U+1F12 U+1F1A U+1F13 U+1F13 U+1F1B U+1F14 U+1F14 U+1F1C U+1F15 U+1F15 U+1F1D U+1F18 U+1F10 U+1F18 ",
          "U+1F19 U+1F11 U+1F19 U+1F1A U+1F12 U+1F1A U+1F1B U+1F13 U+1F1B U+1F1C U+1F14 U+1F1C U+1F1D U+1F15 U+1F1D ",
          "U+1F20 U+1F20 U+1F28 U+1F21 U+1F21 U+1F29 U+1F22 U+1F22 U+1F2A U+1F23 U+1F23 U+1F2B U+1F24 U+1F24 U+1F2C ",
          "U+1F25 U+1F25 U+1F2D U+1F26 U+1F26 U+1F2E U+1F27 U+1F27 U+1F2F U+1F28 U+1F20 U+1F28 U+1F29 U+1F21 U+1F29 ",
          "U+1F2A U+1F22 U+1F2A U+1F2B U+1F23 U+1F2B U+1F2C U+1F24 U+1F2C U+1F2D U+1F25 U+1F2D U+1F2E U+1F26 U+1F2E ",
          "U+1F2F U+1F27 U+1F2F U+1F30 U+1F30 U+1F38 U+1F31 U+1F31 U+1F39 U+1F32 U+1F32 U+1F3A U+1F33 U+1F33 U+1F3B ",
          "U+1F34 U+1F34 U+1F3C U+1F35 U+1F35 U+1F3D U+1F36 U+1F36 U+1F3E U+1F37 U+1F37 U+1F3F U+1F38 U+1F30 U+1F38 ",
          "U+1F39 U+1F31 U+1F39 U+1F3A U+1F32 U+1F3A U+1F3B U+1F33 U+1F3B U+1F3C U+1F34 U+1F3C U+1F3D U+1F35 U+1F3D ",
          "U+1F3E U+1F36 U+1F3E U+1F3F U+1F37 U+1F3F U+1F40 U+1F40 U+1F48 U+1F41 U+1F41 U+1F49 U+1F42 U+1F42 U+1F4A ",
          "U+1F43 U+1F43 U+1F4B U+1F44 U+1F44 U+1F4C U+1F45 U+1F45 U+1F4D U+1F48 U+1F40 U+1F48 U+1F49 U+1F41 U+1F49 ",
          "U+1F4A U+1F42 U+1F4A U+1F4B U+1F43 U+1F4B U+1F4C U+1F44 U+1F4C U+1F4D U+1F45 U+1F4D U+1F51 U+1F51 U+1F59 ",
          "U+1F53 U+1F53 U+1F5B U+1F55 U+1F55 U+1F5D U+1F57 U+1F57 U+1F5F U+1F59 U+1F51 U+1F59 U+1F5B U+1F53 U+1F5B ",
          "U+1F5D U+1F55 U+1F5D U+1F5F U+1F57 U+1F5F U+1F60 U+1F60 U+1F68 U+1F61 U+1F61 U+1F69 U+1F62 U+1F62 U+1F6A ",
          "U+1F63 U+1F63 U+1F6B U+1F64 U+1F64 U+1F6C U+1F65 U+1F65 U+1F6D U+1F66 U+1F66 U+1F6E U+1F67 U+1F67 U+1F6F ",
          "U+1F68 U+1F60 U+1F68 U+1F69 U+1F61 U+1F69 U+1F6A U+1F62 U+1F6A U+1F6B U+1F63 U+1F6B U+1F6C U+1F64 U+1F6C ",
          "U+1F6D U+1F65 U+1F6D U+1F6E U+1F66 U+1F6E U+1F6F U+1F67 U+1F6F U+1F70 U+1F70 U+1FBA U+1F71 U+1F71 U+1FBB ",
          "U+1F72 U+1F72 U+1FC8 U+1F73 U+1F73 U+1FC9 U+1F74 U+1F74 U+1FCA U+1F75 U+1F75 U+1FCB U+1F76 U+1F76 U+1FDA ",
          "U+1F77 U+1F77 U+1FDB U+1F78 U+1F78 U+1FF8 U+1F79 U+1F79 U+1FF9 U+1F7A U+1F7A U+1FEA U+1F7B U+1F7B U+1FEB ",
          "U+1F7C U+1F7C U+1FFA U+1F7D U+1F7D U+1FFB U+1F80 U+1F80 U+1F88 U+1F81 U+1F81 U+1F89 U+1F82 U+1F82 U+1F8A ",
          "U+1F83 U+1F83 U+1F8B U+1F84 U+1F84 U+1F8C U+1F85 U+1F85 U+1F8D U+1F86 U+1F86 U+1F8E U+1F87 U+1F87 U+1F8F ",
          "U+1F88 U+1F80 U+1F88 U+1F89 U+1F81 U+1F89 U+1F8A U+1F82 U+1F8A U+1F8B U+1F83 U+1F8B U+1F8C U+1F84 U+1F8C ",
          "U+1F8D U+1F85 U+1F8D U+1F8E U+1F86 U+1F8E U+1F8F U+1F87 U+1F8F U+1F90 U+1F90 U+1F98 U+1F91 U+1F91 U+1F99 ",
          "U+1F92 U+1F92 U+1F9A U+1F93 U+1F93 U+1F9B U+1F94 U+1F94 U+1F9C U+1F95 U+1F95 U+1F9D U+1F96 U+1F96 U+1F9E ",
          "U+1F97 U+1F97 U+1F9F U+1F98 U+1F90 U+1F98 U+1F99 U+1F91 U+1F99 U+1F9A U+1F92 U+1F9A U+1F9B U+1F93 U+1F9B ",
          "U+1F9C U+1F94 U+1F9C U+1F9D U+1F95 U+1F9D U+1F9E U+1F96 U+1F9E U+1F9F U+1F97 U+1F9F U+1FA0 U+1FA0 U+1FA8 ",
          "U+1FA1 U+1FA1 U+1FA9 U+1FA2 U+1FA2 U+1FAA U+1FA3 U+1FA3 U+1FAB U+1FA4 U+1FA4 U+1FAC U+1FA5 U+1FA5 U+1FAD ",
          "U+1FA6 U+1FA6 U+1FAE U+1FA7 U+1FA7 U+1FAF U+1FA8 U+1FA0 U+1FA8 U+1FA9 U+1FA1 U+1FA9 U+1FAA U+1FA2 U+1FAA ",
          "U+1FAB U+1FA3 U+1FAB U+1FAC U+1FA4 U+1FAC U+1FAD U+1FA5 U+1FAD U+1FAE U+1FA6 U+1FAE U+1FAF U+1FA7 U+1FAF ",
          "U+1FB0 U+1FB0 U+1FB8 U+1FB1 U+1FB1 U+1FB9 U+1FB3 U+1FB3 U+1FBC U+1FB8 U+1FB0 U+1FB8 U+1FB9 U+1FB1 U+1FB9 ",
          "U+1FBA U+1F70 U+1FBA U+1FBB U+1F71 U+1FBB U+1FBC U+1FB3 U+1FBC U+1FBE U+1FBE U+0399 U+1FC3 U+1FC3 U+1FCC ",
          "U+1FC8 U+1F72 U+1FC8 U+1FC9 U+1F73 U+1FC9 U+1FCA U+1F74 U+1FCA U+1FCB U+1F75 U+1FCB U+1FCC U+1FC3 U+1FCC ",
          "U+1FD0 U+1FD0 U+1FD8 U+1FD1 U+1FD1 U+1FD9 U+1FD8 U+1FD0 U+1FD8 U+1FD9 U+1FD1 U+1FD9 U+1FDA U+1F76 U+1FDA ",
          "U+1FDB U+1F77 U+1FDB U+1FE0 U+1FE0 U+1FE8 U+1FE1 U+1FE1 U+1FE9 U+1FE5 U+1FE5 U+1FEC U+1FE8 U+1FE0 U+1FE8 ",
          "U+1FE9 U+1FE1 U+1FE9 U+1FEA U+1F7A U+1FEA U+1FEB U+1F7B U+1FEB U+1FEC U+1FE5 U+1FEC U+1FF3 U+1FF3 U+1FFC ",
          "U+1FF8 U+1F78 U+1FF8 U+1FF9 U+1F79 U+1FF9 U+1FFA U+1F7C U+1FFA U+1FFB U+1F7D U+1FFB U+1FFC U+1FF3 U+1FFC ",
          "U+2126 U+03C9 U+2126 U+212A k      U+212A U+212B U+00E5 U+212B U+2132 U+214E U+2132 U+214E U+214E U+2132 ",
          "U+2160 U+2170 U+2160 U+2161 U+2171 U+2161 U+2162 U+2172 U+2162 U+2163 U+2173 U+2163 U+2164 U+2174 U+2164 ",
          "U+2165 U+2175 U+2165 U+2166 U+2176 U+2166 U+2167 U+2177 U+2167 U+2168 U+2178 U+2168 U+2169 U+2179 U+2169 ",
          "U+216A U+217A U+216A U+216B U+217B U+216B U+216C U+217C U+216C U+216D U+217D U+216D U+216E U+217E U+216E ",
          "U+216F U+217F U+216F U+2170 U+2170 U+2160 U+2171 U+2171 U+2161 U+2172 U+2172 U+2162 U+2173 U+2173 U+2163 ",
          "U+2174 U+2174 U+2164 U+2175 U+2175 U+2165 U+2176 U+2176 U+2166 U+2177 U+2177 U+2167 U+2178 U+2178 U+2168 ",
          "U+2179 U+2179 U+2169 U+217A U+217A U+216A U+217B U+217B U+216B U+217C U+217C U+216C U+217D U+217D U+216D ",
          "U+217E U+217E U+216E U+217F U+217F U+216F U+2183 U+2184 U+2183 U+2184 U+2184 U+2183 U+24B6 U+24D0 U+24B6 ",
          "U+24B7 U+24D1 U+24B7 U+24B8 U+24D2 U+24B8 U+24B9 U+24D3 U+24B9 U+24BA U+24D4 U+24BA U+24BB U+24D5 U+24BB ",
          "U+24BC U+24D6 U+24BC U+24BD U+24D7 U+24BD U+24BE U+24D8 U+24BE U+24BF U+24D9 U+24BF U+24C0 U+24DA U+24C0 ",
          "U+24C1 U+24DB U+24C1 U+24C2 U+24DC U+24C2 U+24C3 U+24DD U+24C3 U+24C4 U+24DE U+24C4 U+24C5 U+24DF U+24C5 ",
          "U+24C6 U+24E0 U+24C6 U+24C7 U+24E1 U+24C7 U+24C8 U+24E2 U+24C8 U+24C9 U+24E3 U+24C9 U+24CA U+24E4 U+24CA ",
          "U+24CB U+24E5 U+24CB U+24CC U+24E6 U+24CC U+24CD U+24E7 U+24CD U+24CE U+24E8 U+24CE U+24CF U+24E9 U+24CF ",
          "U+24D0 U+24D0 U+24B6 U+24D1 U+24D1 U+24B7 U+24D2 U+24D2 U+24B8 U+24D3 U+24D3 U+24B9 U+24D4 U+24D4 U+24BA ",
          "U+24D5 U+24D5 U+24BB U+24D6 U+24D6 U+24BC U+24D7 U+24D7 U+24BD U+24D8 U+24D8 U+24BE U+24D9 U+24D9 U+24BF ",
          "U+24DA U+24DA U+24C0 U+24DB U+24DB U+24C1 U+24DC U+24DC U+24C2 U+24DD U+24DD U+24C3 U+24DE U+24DE U+24C4 ",
          "U+24DF U+24DF U+24C5 U+24E0 U+24E0 U+24C6 U+24E1 U+24E1 U+24C7 U+24E2 U+24E2 U+24C8 U+24E3 U+24E3 U+24C9 ",
          "U+24E4 U+24E4 U+24CA U+24E5 U+24E5 U+24CB U+24E6 U+24E6 U+24CC U+24E7 U+24E7 U+24CD U+24E8 U+24E8 U+24CE ",
          "U+24E9 U+24E9 U+24CF U+2C00 U+2C30 U+2C00 U+2C01 U+2C31 U+2C01 U+2C02 U+2C32 U+2C02 U+2C03 U+2C33 U+2C03 ",
          "U+2C04 U+2C34 U+2C04 U+2C05 U+2C35 U+2C05 U+2C06 U+2C36 U+2C06 U+2C07 U+2C37 U+2C07 U+2C08 U+2C38 U+2C08 ",
          "U+2C09 U+2C39 U+2C09 U+2C0A U+2C3A U+2C0A U+2C0B U+2C3B U+2C0B U+2C0C U+2C3C U+2C0C U+2C0D U+2C3D U+2C0D ",
          "U+2C0E U+2C3E U+2C0E U+2C0F U+2C3F U+2C0F U+2C10 U+2C40 U+2C10 U+2C11 U+2C41 U+2C11 U+2C12 U+2C42 U+2C12 ",
          "U+2C13 U+2C43 U+2C13 U+2C14 U+2C44 U+2C14 U+2C15 U+2C45 U+2C15 U+2C16 U+2C46 U+2C16 U+2C17 U+2C47 U+2C17 ",
          "U+2C18 U+2C48 U+2C18 U+2C19 U+2C49 U+2C19 U+2C1A U+2C4A U+2C1A U+2C1B U+2C4B U+2C1B U+2C1C U+2C4C U+2C1C ",
          "U+2C1D U+2C4D U+2C1D U+2C1E U+2C4E U+2C1E U+2C1F U+2C4F U+2C1F U+2C20 U+2C50 U+2C20 U+2C21 U+2C51 U+2C21 ",
          "U+2C22 U+2C52 U+2C22 U+2C23 U+2C53 U+2C23 U+2C24 U+2C54 U+2C24 U+2C25 U+2C55 U+2C25 U+2C26 U+2C56 U+2C26 ",
          "U+2C27 U+2C57 U+2C27 U+2C28 U+2C58 U+2C28 U+2C29 U+2C59 U+2C29 U+2C2A U+2C5A U+2C2A U+2C2B U+2C5B U+2C2B ",
          "U+2C2C U+2C5C U+2C2C U+2C2D U+2C5D U+2C2D U+2C2E U+2C5E U+2C2E U+2C2F U+2C5F U+2C2F U+2C30 U+2C30 U+2C00 ",
          "U+2C31 U+2C31 U+2C01 U+2C32 U+2C32 U+2C02 U+2C33 U+2C33 U+2C03 U+2C34 U+2C34 U+2C04 U+2C35 U+2C35 U+2C05 ",
          "U+2C36 U+2C36 U+2C06 U+2C37 U+2C37 U+2C07 U+2C38 U+2C38 U+2C08 U+2C39 U+2C39 U+2C09 U+2C3A U+2C3A U+2C0A ",
          "U+2C3B U+2C3B U+2C0B U+2C3C U+2C3C U+2C0C U+2C3D U+2C3D U+2C0D U+2C3E U+2C3E U+2C0E U+2C3F U+2C3F U+2C0F ",
          "U+2C40 U+2C40 U+2C10 U+2C41 U+2C41 U+2C11 U+2C42 U+2C42 U+2C12 U+2C43 U+2C43 U+2C13 U+2C44 U+2C44 U+2C14 ",
          "U+2C45 U+2C45 U+2C15 U+2C46 U+2C46 U+2C16 U+2C47 U+2C47 U+2C17 U+2C48 U+2C48 U+2C18 U+2C49 U+2C49 U+2C19 ",
          "U+2C4A U+2C4A U+2C1A U+2C4B U+2C4B U+2C1B U+2C4C U+2C4C U+2C1C U+2C4D U+2C4D U+2C1D U+2C4E U+2C4E U+2C1E ",
          "U+2C4F U+2C4F U+2C1F U+2C50 U+2C50 U+2C20 U+2C51 U+2C51 U+2C21 U+2C52 U+2C52 U+2C22 U+2C53 U+2C53 U+2C23 ",
          "U+2C54 U+2C54 U+2C24 U+2C55 U+2C55 U+2C25 U+2C56 U+2C56 U+2C26 U+2C57 U+2C57 U+2C27 U+2C58 U+2C58 U+2C28 ",
          "U+2C59 U+2C59 U+2C29 U+2C5A U+2C5A U+2C2A U+2C5B U+2C5B U+2C2B U+2C5C U+2C5C U+2C2C U+2C5D U+2C5D U+2C2D ",
          "U+2C5E U+2C5E U+2C2E U+2C5F U+2C5F U+2C2F U+2C60 U+2C61 U+2C60 U+2C61 U+2C61 U+2C60 U+2C62 U+026B U+2C62 ",
          "U+2C63 U+1D7D U+2C63 U+2C64 U+027D U+2C64 U+2C65 U+2C65 U+023A U+2C66 U+2C66 U+023E U+2C67 U+2C68 U+2C67 ",
          "U+2C68 U+2C68 U+2C67 U+2C69 U+2C6A U+2C69 U+2C6A U+2C6A U+2C69 U+2C6B U+2C6C U+2C6B U+2C6C U+2C6C U+2C6B ",
          "U+2C6D U+0251 U+2C6D U+2C6E U+0271 U+2C6E U+2C6F U+0250 U+2C6F U+2C70 U+0252 U+2C70 U+2C72 U+2C73 U+2C72 ",
          "U+2C73 U+2C73 U+2C72 U+2C75 U+2C76 U+2C75 U+2C76 U+2C76 U+2C75 U+2C7E U+023F U+2C7E U+2C7F U+0240 U+2C7F ",
          "U+2C80 U+2C81 U+2C80 U+2C81 U+2C81 U+2C80 U+2C82 U+2C83 U+2C82 U+2C83 U+2C83 U+2C82 U+2C84 U+2C85 U+2C84 ",
          "U+2C85 U+2C85 U+2C84 U+2C86 U+2C87 U+2C86 U+2C87 U+2C87 U+2C86 U+2C88 U+2C89 U+2C88 U+2C89 U+2C89 U+2C88 ",
          "U+2C8A U+2C8B U+2C8A U+2C8B U+2C8B U+2C8A U+2C8C U+2C8D U+2C8C U+2C8D U+2C8D U+2C8C U+2C8E U+2C8F U+2C8E ",
          "U+2C8F U+2C8F U+2C8E U+2C90 U+2C91 U+2C90 U+2C91 U+2C91 U+2C90 U+2C92 U+2C93 U+2C92 U+2C93 U+2C93 U+2C92 ",
          "U+2C94 U+2C95 U+2C94 U+2C95 U+2C95 U+2C94 U+2C96 U+2C97 U+2C96 U+2C97 U+2C97 U+2C96 U+2C98 U+2C99 U+2C98 ",
          "U+2C99 U+2C99 U+2C98 U+2C9A U+2C9B U+2C9A U+2C9B U+2C9B U+2C9A U+2C9C U+2C9D U+2C9C U+2C9D U+2C9D U+2C9C ",
          "U+2C9E U+2C9F U+2C9E U+2C9F U+2C9F U+2C9E U+2CA0 U+2CA1 U+2CA0 U+2CA1 U+2CA1 U+2CA0 U+2CA2 U+2CA3 U+2CA2 ",
          "U+2CA3 U+2CA3 U+2CA2 U+2CA4 U+2CA5 U+2CA4 U+2CA5 U+2CA5 U+2CA4 U+2CA6 U+2CA7 U+2CA6 U+2CA7 U+2CA7 U+2CA6 ",
          "U+2CA8 U+2CA9 U+2CA8 U+2CA9 U+2CA9 U+2CA8 U+2CAA U+2CAB U+2CAA U+2CAB U+2CAB U+2CAA U+2CAC U+2CAD U+2CAC ",
          "U+2CAD U+2CAD U+2CAC U+2CAE U+2CAF U+2CAE U+2CAF U+2CAF U+2CAE U+2CB0 U+2CB1 U+2CB0 U+2CB1 U+2CB1 U+2CB0 ",
          "U+2CB2 U+2CB3 U+2CB2 U+2CB3 U+2CB3 U+2CB2 U+2CB4 U+2CB5 U+2CB4 U+2CB5 U+2CB5 U+2CB4 U+2CB6 U+2CB7 U+2CB6 ",
          "U+2CB7 U+2CB7 U+2CB6 U+2CB8 U+2CB9 U+2CB8 U+2CB9 U+2CB9 U+2CB8 U+2CBA U+2CBB U+2CBA U+2CBB U+2CBB U+2CBA ",
          "U+2CBC U+2CBD U+2CBC U+2CBD U+2CBD U+2CBC U+2CBE U+2CBF U+2CBE U+2CBF U+2CBF U+2CBE U+2CC0 U+2CC1 U+2CC0 ",
          "U+2CC1 U+2CC1 U+2CC0 U+2CC2 U+2CC3 U+2CC2 U+2CC3 U+2CC3 U+2CC2 U+2CC4 U+2CC5 U+2CC4 U+2CC5 U+2CC5 U+2CC4 ",
          "U+2CC6 U+2CC7 U+2CC6 U+2CC7 U+2CC7 U+2CC6 U+2CC8 U+2CC9 U+2CC8 U+2CC9 U+2CC9 U+2CC8 U+2CCA U+2CCB U+2CCA ",
          "U+2CCB U+2CCB U+2CCA U+2CCC U+2CCD U+2CCC U+2CCD U+2CCD U+2CCC U+2CCE U+2CCF U+2CCE U+2CCF U+2CCF U+2CCE ",
          "U+2CD0 U+2CD1 U+2CD0 U+2CD1 U+2CD1 U+2CD0 U+2CD2 U+2CD3 U+2CD2 U+2CD3 U+2CD3 U+2CD2 U+2CD4 U+2CD5 U+2CD4 ",
          "U+2CD5 U+2CD5 U+2CD4 U+2CD6 U+2CD7 U+2CD6 U+2CD7 U+2CD7 U+2CD6 U+2CD8 U+2CD9 U+2CD8 U+2CD9 U+2CD9 U+2CD8 ",
          "U+2CDA U+2CDB U+2CDA U+2CDB U+2CDB U+2CDA U+2CDC U+2CDD U+2CDC U+2CDD U+2CDD U+2CDC U+2CDE U+2CDF U+2CDE ",
          "U+2CDF U+2CDF U+2CDE U+2CE0 U+2CE1 U+2CE0 U+2CE1 U+2CE1 U+2CE0 U+2CE2 U+2CE3 U+2CE2 U+2CE3 U+2CE3 U+2CE2 ",
          "U+2CEB U+2CEC U+2CEB U+2CEC U+2CEC U+2CEB U+2CED U+2CEE U+2CED U+2CEE U+2CEE U+2CED U+2CF2 U+2CF3 U+2CF2 ",
          "U+2CF3 U+2CF3 U+2CF2 U+2D00 U+2D00 U+10A0 U+2D01 U+2D01 U+10A1 U+2D02 U+2D02 U+10A2 U+2D03 U+2D03 U+10A3 ",
          "U+2D04 U+2D04 U+10A4 U+2D05 U+2D05 U+10A5 U+2D06 U+2D06 U+10A6 U+2D07 U+2D07 U+10A7 U+2D08 U+2D08 U+10A8 ",
          "U+2D09 U+2D09 U+10A9 U+2D0A U+2D0A U+10AA U+2D0B U+2D0B U+10AB U+2D0C U+2D0C U+10AC U+2D0D U+2D0D U+10AD ",
          "U+2D0E U+2D0E U+10AE U+2D0F U+2D0F U+10AF U+2D10 U+2D10 U+10B0 U+2D11 U+2D11 U+10B1 U+2D12 U+2D12 U+10B2 ",
          "U+2D13 U+2D13 U+10B3 U+2D14 U+2D14 U+10B4 U+2D15 U+2D15 U+10B5 U+2D16 U+2D16 U+10B6 U+2D17 U+2D17 U+10B7 ",
          "U+2D18 U+2D18 U+10B8 U+2D19 U+2D19 U+10B9 U+2D1A U+2D1A U+10BA U+2D1B U+2D1B U+10BB U+2D1C U+2D1C U+10BC ",
          "U+2D1D U+2D1D U+10BD U+2D1E U+2D1E U+10BE U+2D1F U+2D1F U+10BF U+2D20 U+2D20 U+10C0 U+2D21 U+2D21 U+10C1 ",
          "U+2D22 U+2D22 U+10C2 U+2D23 U+2D23 U+10C3 U+2D24 U+2D24 U+10C4 U+2D25 U+2D25 U+10C5 U+2D27 U+2D27 U+10C7 ",
          "U+2D2D U+2D2D U+10CD U+A640 U+A641 U+A640 U+A641 U+A641 U+A640 U+A642 U+A643 U+A642 U+A643 U+A643 U+A642 ",
          "U+A644 U+A645 U+A644 U+A645 U+A645 U+A644 U+A646 U+A647 U+A646 U+A647 U+A647 U+A646 U+A648 U+A649 U+A648 ",
          "U+A649 U+A649 U+A648 U+A64A U+A64B U+A64A U+A64B U+A64B U+A64A U+A64C U+A64D U+A64C U+A64D U+A64D U+A64C ",
          "U+A64E U+A64F U+A64E U+A64F U+A64F U+A64E U+A650 U+A651 U+A650 U+A651 U+A651 U+A650 U+A652 U+A653 U+A652 ",
          "U+A653 U+A653 U+A652 U+A654 U+A655 U+A654 U+A655 U+A655 U+A654 U+A656 U+A657 U+A656 U+A657 U+A657 U+A656 ",
          "U+A658 U+A659 U+A658 U+A659 U+A659 U+A658 U+A65A U+A65B U+A65A U+A65B U+A65B U+A65A U+A65C U+A65D U+A65C ",
          "U+A65D U+A65D U+A65C U+A65E U+A65F U+A65E U+A65F U+A65F U+A65E U+A660 U+A661 U+A660 U+A661 U+A661 U+A660 ",
          "U+A662 U+A663 U+A662 U+A663 U+A663 U+A662 U+A664 U+A665 U+A664 U+A665 U+A665 U+A664 U+A666 U+A667 U+A666 ",
          "U+A667 U+A667 U+A666 U+A668 U+A669 U+A668 U+A669 U+A669 U+A668 U+A66A U+A66B U+A66A U+A66B U+A66B U+A66A ",
          "U+A66C U+A66D U+A66C U+A66D U+A66D U+A66C U+A680 U+A681 U+A680 U+A681 U+A681 U+A680 U+A682 U+A683 U+A682 ",
          "U+A683 U+A683 U+A682 U+A684 U+A685 U+A684 U+A685 U+A685 U+A684 U+A686 U+A687 U+A686 U+A687 U+A687 U+A686 ",
          "U+A688 U+A689 U+A688 U+A689 U+A689 U+A688 U+A68A U+A68B U+A68A U+A68B U+A68B U+A68A U+A68C U+A68D U+A68C ",
          "U+A68D U+A68D U+A68C U+A68E U+A68F U+A68E U+A68F U+A68F U+A68E U+A690 U+A691 U+A690 U+A691 U+A691 U+A690 ",
          "U+A692 U+A693 U+A692 U+A693 U+A693 U+A692 U+A694 U+A695 U+A694 U+A695 U+A695 U+A694 U+A696 U+A697 U+A696 ",
          "U+A697 U+A697 U+A696 U+A698 U+A699 U+A698 U+A699 U+A699 U+A698 U+A69A U+A69B U+A69A U+A69B U+A69B U+A69A ",
          "U+A722 U+A723 U+A722 U+A723 U+A723 U+A722 U+A724 U+A725 U+A724 U+A725 U+A725 U+A724 U+A726 U+A727 U+A726 ",
          "U+A727 U+A727 U+A726 U+A728 U+A729 U+A728 U+A729 U+A729 U+A728 U+A72A U+A72B U+A72A U+A72B U+A72B U+A72A ",
          "U+A72C U+A72D U+A72C U+A72D U+A72D U+A72C U+A72E U+A72F U+A72E U+A72F U+A72F U+A72E U+A732 U+A733 U+A732 ",
          "U+A733 U+A733 U+A732 U+A734 U+A735 U+A734 U+A735 U+A735 U+A734 U+A736 U+A737 U+A736 U+A737 U+A737 U+A736 ",
          "U+A738 U+A739 U+A738 U+A739 U+A739 U+A738 U+A73A U+A73B U+A73A U+A73B U+A73B U+A73A U+A73C U+A73D U+A73C ",
          "U+A73D U+A73D U+A73C U+A73E U+A73F U+A73E U+A73F U+A73F U+A73E U+A740 U+A741 U+A740 U+A741 U+A741 U+A740 ",
          "U+A742 U+A743 U+A742 U+A743 U+A743 U+A742 U+A744 U+A745 U+A744 U+A745 U+A745 U+A744 U+A746 U+A747 U+A746 ",
          "U+A747 U+A747 U+A746 U+A748 U+A749 U+A748 U+A749 U+A749 U+A748 U+A74A U+A74B U+A74A U+A74B U+A74B U+A74A ",
          "U+A74C U+A74D U+A74C U+A74D U+A74D U+A74C U+A74E U+A74F U+A74E U+A74F U+A74F U+A74E U+A750 U+A751 U+A750 ",
          "U+A751 U+A751 U+A750 U+A752 U+A753 U+A752 U+A753 U+A753 U+A752 U+A754 U+A755 U+A754 U+A755 U+A755 U+A754 ",
          "U+A756 U+A757 U+A756 U+A757 U+A757 U+A756 U+A758 U+A759 U+A758 U+A759 U+A759 U+A758 U+A75A U+A75B U+A75A ",
          "U+A75B U+A75B U+A75A U+A75C U+A75D U+A75C U+A75D U+A75D U+A75C U+A75E U+A75F U+A75E U+A75F U+A75F U+A75E ",
          "U+A760 U+A761 U+A760 U+A761 U+A761 U+A760 U+A762 U+A763 U+A762 U+A763 U+A763 U+A762 U+A764 U+A765 U+A764 ",
          "U+A765 U+A765 U+A764 U+A766 U+A767 U+A766 U+A767 U+A767 U+A766 U+A768 U+A769 U+A768 U+A769 U+A769 U+A768 ",
          "U+A76A U+A76B U+A76A U+A76B U+A76B U+A76A U+A76C U+A76D U+A76C U+A76D U+A76D U+A76C U+A76E U+A76F U+A76E ",
          "U+A76F U+A76F U+A76E U+A779 U+A77A U+A779 U+A77A U+A77A U+A779 U+A77B U+A77C U+A77B U+A77C U+A77C U+A77B ",
          "U+A77D U+1D79 U+A77D U+A77E U+A77F U+A77E U+A77F U+A77F U+A77E U+A780 U+A781 U+A780 U+A781 U+A781 U+A780 ",
          "U+A782 U+A783 U+A782 U+A783 U+A783 U+A782 U+A784 U+A785 U+A784 U+A785 U+A785 U+A784 U+A786 U+A787 U+A786 ",
          "U+A787 U+A787 U+A786 U+A78B U+A78C U+A78B U+A78C U+A78C U+A78B U+A78D U+0265 U+A78D U+A790 U+A791 U+A790 ",
          "U+A791 U+A791 U+A790 U+A792 U+A793 U+A792 U+A793 U+A793 U+A792 U+A794 U+A794 U+A7C4 U+A796 U+A797 U+A796 ",
          "U+A797 U+A797 U+A796 U+A798 U+A799 U+A798 U+A799 U+A799 U+A798 U+A79A U+A79B U+A79A U+A79B U+A79B U+A79A ",
          "U+A79C U+A79D U+A79C U+A79D U+A79D U+A79C U+A79E U+A79F U+A79E U+A79F U+A79F U+A79E U+A7A0 U+A7A1 U+A7A0 ",
          "U+A7A1 U+A7A1 U+A7A0 U+A7A2 U+A7A3 U+A7A2 U+A7A3 U+A7A3 U+A7A2 U+A7A4 U+A7A5 U+A7A4 U+A7A5 U+A7A5 U+A7A4 ",
          "U+A7A6 U+A7A7 U+A7A6 U+A7A7 U+A7A7 U+A7A6 U+A7A8 U+A7A9 U+A7A8 U+A7A9 U+A7A9 U+A7A8 U+A7AA U+0266 U+A7AA ",
          "U+A7AB U+025C U+A7AB U+A7AC U+0261 U+A7AC U+A7AD U+026C U+A7AD U+A7AE U+026A U+A7AE U+A7B0 U+029E U+A7B0 ",
          "U+A7B1 U+0287 U+A7B1 U+A7B2 U+029D U+A7B2 U+A7B3 U+AB53 U+A7B3 U+A7B4 U+A7B5 U+A7B4 U+A7B5 U+A7B5 U+A7B4 ",
          "U+A7B6 U+A7B7 U+A7B6 U+A7B7 U+A7B7 U+A7B6 U+A7B8 U+A7B9 U+A7B8 U+A7B9 U+A7B9 U+A7B8 U+A7BA U+A7BB U+A7BA ",
          "U+A7BB U+A7BB U+A7BA U+A7BC U+A7BD U+A7BC U+A7BD U+A7BD U+A7BC U+A7BE U+A7BF U+A7BE U+A7BF U+A7BF U+A7BE ",
          "U+A7C0 U+A7C1 U+A7C0 U+A7C1 U+A7C1 U+A7C0 U+A7C2 U+A7C3 U+A7C2 U+A7C3 U+A7C3 U+A7C2 U+A7C4 U+A794 U+A7C4 ",
          "U+A7C5 U+0282 U+A7C5 U+A7C6 U+1D8E U+A7C6 U+A7C7 U+A7C8 U+A7C7 U+A7C8 U+A7C8 U+A7C7 U+A7C9 U+A7CA U+A7C9 ",
          "U+A7CA U+A7CA U+A7C9 U+A7D0 U+A7D1 U+A7D0 U+A7D1 U+A7D1 U+A7D0 U+A7D6 U+A7D7 U+A7D6 U+A7D7 U+A7D7 U+A7D6 ",
          "U+A7D8 U+A7D9 U+A7D8 U+A7D9 U+A7D9 U+A7D8 U+A7F5 U+A7F6 U+A7F5 U+A7F6 U+A7F6 U+A7F5 U+AB53 U+AB53 U+A7B3 ",
          "U+AB70 U+AB70 U+13A0 U+AB71 U+AB71 U+13A1 U+AB72 U+AB72 U+13A2 U+AB73 U+AB73 U+13A3 U+AB74 U+AB74 U+13A4 ",
          "U+AB75 U+AB75 U+13A5 U+AB76 U+AB76 U+13A6 U+AB77 U+AB77 U+13A7 U+AB78 U+AB78 U+13A8 U+AB79 U+AB79 U+13A9 ",
          "U+AB7A U+AB7A U+13AA U+AB7B U+AB7B U+13AB U+AB7C U+AB7C U+13AC U+AB7D U+AB7D U+13AD U+AB7E U+AB7E U+13AE ",
          "U+AB7F U+AB7F U+13AF U+AB80 U+AB80 U+13B0 U+AB81 U+AB81 U+13B1 U+AB82 U+AB82 U+13B2 U+AB83 U+AB83 U+13B3 ",
          "U+AB84 U+AB84 U+13B4 U+AB85 U+AB85 U+13B5 U+AB86 U+AB86 U+13B6 U+AB87 U+AB87 U+13B7 U+AB88 U+AB88 U+13B8 ",
          "U+AB89 U+AB89 U+13B9 U+AB8A U+AB8A U+13BA U+AB8B U+AB8B U+13BB U+AB8C U+AB8C U+13BC U+AB8D U+AB8D U+13BD ",
          "U+AB8E U+AB8E U+13BE U+AB8F U+AB8F U+13BF U+AB90 U+AB90 U+13C0 U+AB91 U+AB91 U+13C1 U+AB92 U+AB92 U+13C2 ",
          "U+AB93 U+AB93 U+13C3 U+AB94 U+AB94 U+13C4 U+AB95 U+AB95 U+13C5 U+AB96 U+AB96 U+13C6 U+AB97 U+AB97 U+13C7 ",
          "U+AB98 U+AB98 U+13C8 U+AB99 U+AB99 U+13C9 U+AB9A U+AB9A U+13CA U+AB9B U+AB9B U+13CB U+AB9C U+AB9C U+13CC ",
          "U+AB9D U+AB9D U+13CD U+AB9E U+AB9E U+13CE U+AB9F U+AB9F U+13CF U+ABA0 U+ABA0 U+13D0 U+ABA1 U+ABA1 U+13D1 ",
          "U+ABA2 U+ABA2 U+13D2 U+ABA3 U+ABA3 U+13D3 U+ABA4 U+ABA4 U+13D4 U+ABA5 U+ABA5 U+13D5 U+ABA6 U+ABA6 U+13D6 ",
          "U+ABA7 U+ABA7 U+13D7 U+ABA8 U+ABA8 U+13D8 U+ABA9 U+ABA9 U+13D9 U+ABAA U+ABAA U+13DA U+ABAB U+ABAB U+13DB ",
          "U+ABAC U+ABAC U+13DC U+ABAD U+ABAD U+13DD U+ABAE U+ABAE U+13DE U+ABAF U+ABAF U+13DF U+ABB0 U+ABB0 U+13E0 ",
          "U+ABB1 U+ABB1 U+13E1 U+ABB2 U+ABB2 U+13E2 U+ABB3 U+ABB3 U+13E3 U+ABB4 U+ABB4 U+13E4 U+ABB5 U+ABB5 U+13E5 ",
          "U+ABB6 U+ABB6 U+13E6 U+ABB7 U+ABB7 U+13E7 U+ABB8 U+ABB8 U+13E8 U+ABB9 U+ABB9 U+13E9 U+ABBA U+ABBA U+13EA ",
          "U+ABBB U+ABBB U+13EB U+ABBC U+ABBC U+13EC U+ABBD U+ABBD U+13ED U+ABBE U+ABBE U+13EE U+ABBF U+ABBF U+13EF ",
          "U+FF21 U+FF41 U+FF21 U+FF22 U+FF42 U+FF22 U+FF23 U+FF43 U+FF23 U+FF24 U+FF44 U+FF24 U+FF25 U+FF45 U+FF25 ",
          "U+FF26 U+FF46 U+FF26 U+FF27 U+FF47 U+FF27 U+FF28 U+FF48 U+FF28 U+FF29 U+FF49 U+FF29 U+FF2A U+FF4A U+FF2A ",
          "U+FF2B U+FF4B U+FF2B U+FF2C U+FF4C U+FF2C U+FF2D U+FF4D U+FF2D U+FF2E U+FF4E U+FF2E U+FF2F U+FF4F U+FF2F ",
          "U+FF30 U+FF50 U+FF30 U+FF31 U+FF51 U+FF31 U+FF32 U+FF52 U+FF32 U+FF33 U+FF53 U+FF33 U+FF34 U+FF54 U+FF34 ",
          "U+FF35 U+FF55 U+FF35 U+FF36 U+FF56 U+FF36 U+FF37 U+FF57 U+FF37 U+FF38 U+FF58 U+FF38 U+FF39 U+FF59 U+FF39 ",
          "U+FF3A U+FF5A U+FF3A U+FF41 U+FF41 U+FF21 U+FF42 U+FF42 U+FF22 U+FF43 U+FF43 U+FF23 U+FF44 U+FF44 U+FF24 ",
          "U+FF45 U+FF45 U+FF25 U+FF46 U+FF46 U+FF26 U+FF47 U+FF47 U+FF27 U+FF48 U+FF48 U+FF28 U+FF49 U+FF49 U+FF29 ",
          "U+FF4A U+FF4A U+FF2A U+FF4B U+FF4B U+FF2B U+FF4C U+FF4C U+FF2C U+FF4D U+FF4D U+FF2D U+FF4E U+FF4E U+FF2E ",
          "U+FF4F U+FF4F U+FF2F U+FF50 U+FF50 U+FF30 U+FF51 U+FF51 U+FF31 U+FF52 U+FF52 U+FF32 U+FF53 U+FF53 U+FF33 ",
          "U+FF54 U+FF54 U+FF34 U+FF55 U+FF55 U+FF35 U+FF56 U+FF56 U+FF36 U+FF57 U+FF57 U+FF37 U+FF58 U+FF58 U+FF38 ",
          "U+FF59 U+FF59 U+FF39 U+FF5A U+FF5A U+FF3A U+10400U+10428U+10400U+10401U+10429U+10401U+10402U+1042AU+10402",
          "U+10403U+1042BU+10403U+10404U+1042CU+10404U+10405U+1042DU+10405U+10406U+1042EU+10406U+10407U+1042FU+10407",
          "U+10408U+10430U+10408U+10409U+10431U+10409U+1040AU+10432U+1040AU+1040BU+10433U+1040BU+1040CU+10434U+1040C",
          "U+1040DU+10435U+1040DU+1040EU+10436U+1040EU+1040FU+10437U+1040FU+10410U+10438U+10410U+10411U+10439U+10411",
          "U+10412U+1043AU+10412U+10413U+1043BU+10413U+10414U+1043CU+10414U+10415U+1043DU+10415U+10416U+1043EU+10416",
          "U+10417U+1043FU+10417U+10418U+10440U+10418U+10419U+10441U+10419U+1041AU+10442U+1041AU+1041BU+10443U+1041B",
          "U+1041CU+10444U+1041CU+1041DU+10445U+1041DU+1041EU+10446U+1041EU+1041FU+10447U+1041FU+10420U+10448U+10420",
          "U+10421U+10449U+10421U+10422U+1044AU+10422U+10423U+1044BU+10423U+10424U+1044CU+10424U+10425U+1044DU+10425",
          "U+10426U+1044EU+10426U+10427U+1044FU+10427U+10428U+10428U+10400U+10429U+10429U+10401U+1042AU+1042AU+10402",
          "U+1042BU+1042BU+10403U+1042CU+1042CU+10404U+1042DU+1042DU+10405U+1042EU+1042EU+10406U+1042FU+1042FU+10407",
          "U+10430U+10430U+10408U+10431U+10431U+10409U+10432U+10432U+1040AU+10433U+10433U+1040BU+10434U+10434U+1040C",
          "U+10435U+10435U+1040DU+10436U+10436U+1040EU+10437U+10437U+1040FU+10438U+10438U+10410U+10439U+10439U+10411",
          "U+1043AU+1043AU+10412U+1043BU+1043BU+10413U+1043CU+1043CU+10414U+1043DU+1043DU+10415U+1043EU+1043EU+10416",
          "U+1043FU+1043FU+10417U+10440U+10440U+10418U+10441U+10441U+10419U+10442U+10442U+1041AU+10443U+10443U+1041B",
          "U+10444U+10444U+1041CU+10445U+10445U+1041DU+10446U+10446U+1041EU+10447U+10447U+1041FU+10448U+10448U+10420",
          "U+10449U+10449U+10421U+1044AU+1044AU+10422U+1044BU+1044BU+10423U+1044CU+1044CU+10424U+1044DU+1044DU+10425",
          "U+1044EU+1044EU+10426U+1044FU+1044FU+10427U+104B0U+104D8U+104B0U+104B1U+104D9U+104B1U+104B2U+104DAU+104B2",
          "U+104B3U+104DBU+104B3U+104B4U+104DCU+104B4U+104B5U+104DDU+104B5U+104B6U+104DEU+104B6U+104B7U+104DFU+104B7",
          "U+104B8U+104E0U+104B8U+104B9U+104E1U+104B9U+104BAU+104E2U+104BAU+104BBU+104E3U+104BBU+104BCU+104E4U+104BC",
          "U+104BDU+104E5U+104BDU+104BEU+104E6U+104BEU+104BFU+104E7U+104BFU+104C0U+104E8U+104C0U+104C1U+104E9U+104C1",
          "U+104C2U+104EAU+104C2U+104C3U+104EBU+104C3U+104C4U+104ECU+104C4U+104C5U+104EDU+104C5U+104C6U+104EEU+104C6",
          "U+104C7U+104EFU+104C7U+104C8U+104F0U+104C8U+104C9U+104F1U+104C9U+104CAU+104F2U+104CAU+104CBU+104F3U+104CB",
          "U+104CCU+104F4U+104CCU+104CDU+104F5U+104CDU+104CEU+104F6U+104CEU+104CFU+104F7U+104CFU+104D0U+104F8U+104D0",
          "U+104D1U+104F9U+104D1U+104D2U+104FAU+104D2U+104D3U+104FBU+104D3U+104D8U+104D8U+104B0U+104D9U+104D9U+104B1",
          "U+104DAU+104DAU+104B2U+104DBU+104DBU+104B3U+104DCU+104DCU+104B4U+104DDU+104DDU+104B5U+104DEU+104DEU+104B6",
          "U+104DFU+104DFU+104B7U+104E0U+104E0U+104B8U+104E1U+104E1U+104B9U+104E2U+104E2U+104BAU+104E3U+104E3U+104BB",
          "U+104E4U+104E4U+104BCU+104E5U+104E5U+104BDU+104E6U+104E6U+104BEU+104E7U+104E7U+104BFU+104E8U+104E8U+104C0",
          "U+104E9U+104E9U+104C1U+104EAU+104EAU+104C2U+104EBU+104EBU+104C3U+104ECU+104ECU+104C4U+104EDU+104EDU+104C5",
          "U+104EEU+104EEU+104C6U+104EFU+104EFU+104C7U+104F0U+104F0U+104C8U+104F1U+104F1U+104C9U+104F2U+104F2U+104CA",
          "U+104F3U+104F3U+104CBU+104F4U+104F4U+104CCU+104F5U+104F5U+104CDU+104F6U+104F6U+104CEU+104F7U+104F7U+104CF",
          "U+104F8U+104F8U+104D0U+104F9U+104F9U+104D1U+104FAU+104FAU+104D2U+104FBU+104FBU+104D3U+10570U+10597U+10570",
          "U+10571U+10598U+10571U+10572U+10599U+10572U+10573U+1059AU+10573U+10574U+1059BU+10574U+10575U+1059CU+10575",
          "U+10576U+1059DU+10576U+10577U+1059EU+10577U+10578U+1059FU+10578U+10579U+105A0U+10579U+1057AU+105A1U+1057A",
          "U+1057CU+105A3U+1057CU+1057DU+105A4U+1057DU+1057EU+105A5U+1057EU+1057FU+105A6U+1057FU+10580U+105A7U+10580",
          "U+10581U+105A8U+10581U+10582U+105A9U+10582U+10583U+105AAU+10583U+10584U+105ABU+10584U+10585U+105ACU+10585",
          "U+10586U+105ADU+10586U+10587U+105AEU+10587U+10588U+105AFU+10588U+10589U+105B0U+10589U+1058AU+105B1U+1058A",
          "U+1058CU+105B3U+1058CU+1058DU+105B4U+1058DU+1058EU+105B5U+1058EU+1058FU+105B6U+1058FU+10590U+105B7U+10590",
          "U+10591U+105B8U+10591U+10592U+105B9U+10592U+10594U+105BBU+10594U+10595U+105BCU+10595U+10597U+10597U+10570",
          "U+10598U+10598U+10571U+10599U+10599U+10572U+1059AU+1059AU+10573U+1059BU+1059BU+10574U+1059CU+1059CU+10575",
          "U+1059DU+1059DU+10576U+1059EU+1059EU+10577U+1059FU+1059FU+10578U+105A0U+105A0U+10579U+105A1U+105A1U+1057A",
          "U+105A3U+105A3U+1057CU+105A4U+105A4U+1057DU+105A5U+105A5U+1057EU+105A6U+105A6U+1057FU+105A7U+105A7U+10580",
          "U+105A8U+105A8U+10581U+105A9U+105A9U+10582U+105AAU+105AAU+10583U+105ABU+105ABU+10584U+105ACU+105ACU+10585",
          "U+105ADU+105ADU+10586U+105AEU+105AEU+10587U+105AFU+105AFU+10588U+105B0U+105B0U+10589U+105B1U+105B1U+1058A",
          "U+105B3U+105B3U+1058CU+105B4U+105B4U+1058DU+105B5U+105B5U+1058EU+105B6U+105B6U+1058FU+105B7U+105B7U+10590",
          "U+105B8U+105B8U+10591U+105B9U+105B9U+10592U+105BBU+105BBU+10594U+105BCU+105BCU+10595U+10C80U+10CC0U+10C80",
          "U+10C81U+10CC1U+10C81U+10C82U+10CC2U+10C82U+10C83U+10CC3U+10C83U+10C84U+10CC4U+10C84U+10C85U+10CC5U+10C85",
          "U+10C86U+10CC6U+10C86U+10C87U+10CC7U+10C87U+10C88U+10CC8U+10C88U+10C89U+10CC9U+10C89U+10C8AU+10CCAU+10C8A",
          "U+10C8BU+10CCBU+10C8BU+10C8CU+10CCCU+10C8CU+10C8DU+10CCDU+10C8DU+10C8EU+10CCEU+10C8EU+10C8FU+10CCFU+10C8F",
          "U+10C90U+10CD0U+10C90U+10C91U+10CD1U+10C91U+10C92U+10CD2U+10C92U+10C93U+10CD3U+10C93U+10C94U+10CD4U+10C94",
          "U+10C95U+10CD5U+10C95U+10C96U+10CD6U+10C96U+10C97U+10CD7U+10C97U+10C98U+10CD8U+10C98U+10C99U+10CD9U+10C99",
          "U+10C9AU+10CDAU+10C9AU+10C9BU+10CDBU+10C9BU+10C9CU+10CDCU+10C9CU+10C9DU+10CDDU+10C9DU+10C9EU+10CDEU+10C9E",
          "U+10C9FU+10CDFU+10C9FU+10CA0U+10CE0U+10CA0U+10CA1U+10CE1U+10CA1U+10CA2U+10CE2U+10CA2U+10CA3U+10CE3U+10CA3",
          "U+10CA4U+10CE4U+10CA4U+10CA5U+10CE5U+10CA5U+10CA6U+10CE6U+10CA6U+10CA7U+10CE7U+10CA7U+10CA8U+10CE8U+10CA8",
          "U+10CA9U+10CE9U+10CA9U+10CAAU+10CEAU+10CAAU+10CABU+10CEBU+10CABU+10CACU+10CECU+10CACU+10CADU+10CEDU+10CAD",
          "U+10CAEU+10CEEU+10CAEU+10CAFU+10CEFU+10CAFU+10CB0U+10CF0U+10CB0U+10CB1U+10CF1U+10CB1U+10CB2U+10CF2U+10CB2",
          "U+10CC0U+10CC0U+10C80U+10CC1U+10CC1U+10C81U+10CC2U+10CC2U+10C82U+10CC3U+10CC3U+10C83U+10CC4U+10CC4U+10C84",
          "U+10CC5U+10CC5U+10C85U+10CC6U+10CC6U+10C86U+10CC7U+10CC7U+10C87U+10CC8U+10CC8U+10C88U+10CC9U+10CC9U+10C89",
          "U+10CCAU+10CCAU+10C8AU+10CCBU+10CCBU+10C8BU+10CCCU+10CCCU+10C8CU+10CCDU+10CCDU+10C8DU+10CCEU+10CCEU+10C8E",
          "U+10CCFU+10CCFU+10C8FU+10CD0U+10CD0U+10C90U+10CD1U+10CD1U+10C91U+10CD2U+10CD2U+10C92U+10CD3U+10CD3U+10C93",
          "U+10CD4U+10CD4U+10C94U+10CD5U+10CD5U+10C95U+10CD6U+10CD6U+10C96U+10CD7U+10CD7U+10C97U+10CD8U+10CD8U+10C98",
          "U+10CD9U+10CD9U+10C99U+10CDAU+10CDAU+10C9AU+10CDBU+10CDBU+10C9BU+10CDCU+10CDCU+10C9CU+10CDDU+10CDDU+10C9D",
          "U+10CDEU+10CDEU+10C9EU+10CDFU+10CDFU+10C9FU+10CE0U+10CE0U+10CA0U+10CE1U+10CE1U+10CA1U+10CE2U+10CE2U+10CA2",
          "U+10CE3U+10CE3U+10CA3U+10CE4U+10CE4U+10CA4U+10CE5U+10CE5U+10CA5U+10CE6U+10CE6U+10CA6U+10CE7U+10CE7U+10CA7",
          "U+10CE8U+10CE8U+10CA8U+10CE9U+10CE9U+10CA9U+10CEAU+10CEAU+10CAAU+10CEBU+10CEBU+10CABU+10CECU+10CECU+10CAC",
          "U+10CEDU+10CEDU+10CADU+10CEEU+10CEEU+10CAEU+10CEFU+10CEFU+10CAFU+10CF0U+10CF0U+10CB0U+10CF1U+10CF1U+10CB1",
          "U+10CF2U+10CF2U+10CB2U+118A0U+118C0U+118A0U+118A1U+118C1U+118A1U+118A2U+118C2U+118A2U+118A3U+118C3U+118A3",
          "U+118A4U+118C4U+118A4U+118A5U+118C5U+118A5U+118A6U+118C6U+118A6U+118A7U+118C7U+118A7U+118A8U+118C8U+118A8",
          "U+118A9U+118C9U+118A9U+118AAU+118CAU+118AAU+118ABU+118CBU+118ABU+118ACU+118CCU+118ACU+118ADU+118CDU+118AD",
          "U+118AEU+118CEU+118AEU+118AFU+118CFU+118AFU+118B0U+118D0U+118B0U+118B1U+118D1U+118B1U+118B2U+118D2U+118B2",
          "U+118B3U+118D3U+118B3U+118B4U+118D4U+118B4U+118B5U+118D5U+118B5U+118B6U+118D6U+118B6U+118B7U+118D7U+118B7",
          "U+118B8U+118D8U+118B8U+118B9U+118D9U+118B9U+118BAU+118DAU+118BAU+118BBU+118DBU+118BBU+118BCU+118DCU+118BC",
          "U+118BDU+118DDU+118BDU+118BEU+118DEU+118BEU+118BFU+118DFU+118BFU+118C0U+118C0U+118A0U+118C1U+118C1U+118A1",
          "U+118C2U+118C2U+118A2U+118C3U+118C3U+118A3U+118C4U+118C4U+118A4U+118C5U+118C5U+118A5U+118C6U+118C6U+118A6",
          "U+118C7U+118C7U+118A7U+118C8U+118C8U+118A8U+118C9U+118C9U+118A9U+118CAU+118CAU+118AAU+118CBU+118CBU+118AB",
          "U+118CCU+118CCU+118ACU+118CDU+118CDU+118ADU+118CEU+118CEU+118AEU+118CFU+118CFU+118AFU+118D0U+118D0U+118B0",
          "U+118D1U+118D1U+118B1U+118D2U+118D2U+118B2U+118D3U+118D3U+118B3U+118D4U+118D4U+118B4U+118D5U+118D5U+118B5",
          "U+118D6U+118D6U+118B6U+118D7U+118D7U+118B7U+118D8U+118D8U+118B8U+118D9U+118D9U+118B9U+118DAU+118DAU+118BA",
          "U+118DBU+118DBU+118BBU+118DCU+118DCU+118BCU+118DDU+118DDU+118BDU+118DEU+118DEU+118BEU+118DFU+118DFU+118BF",
          "U+16E40U+16E60U+16E40U+16E41U+16E61U+16E41U+16E42U+16E62U+16E42U+16E43U+16E63U+16E43U+16E44U+16E64U+16E44",
          "U+16E45U+16E65U+16E45U+16E46U+16E66U+16E46U+16E47U+16E67U+16E47U+16E48U+16E68U+16E48U+16E49U+16E69U+16E49",
          "U+16E4AU+16E6AU+16E4AU+16E4BU+16E6BU+16E4BU+16E4CU+16E6CU+16E4CU+16E4DU+16E6DU+16E4DU+16E4EU+16E6EU+16E4E",
          "U+16E4FU+16E6FU+16E4FU+16E50U+16E70U+16E50U+16E51U+16E71U+16E51U+16E52U+16E72U+16E52U+16E53U+16E73U+16E53",
          "U+16E54U+16E74U+16E54U+16E55U+16E75U+16E55U+16E56U+16E76U+16E56U+16E57U+16E77U+16E57U+16E58U+16E78U+16E58",
          "U+16E59U+16E79U+16E59U+16E5AU+16E7AU+16E5AU+16E5BU+16E7BU+16E5BU+16E5CU+16E7CU+16E5CU+16E5DU+16E7DU+16E5D",
          "U+16E5EU+16E7EU+16E5EU+16E5FU+16E7FU+16E5FU+16E60U+16E60U+16E40U+16E61U+16E61U+16E41U+16E62U+16E62U+16E42",
          "U+16E63U+16E63U+16E43U+16E64U+16E64U+16E44U+16E65U+16E65U+16E45U+16E66U+16E66U+16E46U+16E67U+16E67U+16E47",
          "U+16E68U+16E68U+16E48U+16E69U+16E69U+16E49U+16E6AU+16E6AU+16E4AU+16E6BU+16E6BU+16E4BU+16E6CU+16E6CU+16E4C",
          "U+16E6DU+16E6DU+16E4DU+16E6EU+16E6EU+16E4EU+16E6FU+16E6FU+16E4FU+16E70U+16E70U+16E50U+16E71U+16E71U+16E51",
          "U+16E72U+16E72U+16E52U+16E73U+16E73U+16E53U+16E74U+16E74U+16E54U+16E75U+16E75U+16E55U+16E76U+16E76U+16E56",
          "U+16E77U+16E77U+16E57U+16E78U+16E78U+16E58U+16E79U+16E79U+16E59U+16E7AU+16E7AU+16E5AU+16E7BU+16E7BU+16E5B",
          "U+16E7CU+16E7CU+16E5CU+16E7DU+16E7DU+16E5DU+16E7EU+16E7EU+16E5EU+16E7FU+16E7FU+16E5FU+1E900U+1E922U+1E900",
          "U+1E901U+1E923U+1E901U+1E902U+1E924U+1E902U+1E903U+1E925U+1E903U+1E904U+1E926U+1E904U+1E905U+1E927U+1E905",
          "U+1E906U+1E928U+1E906U+1E907U+1E929U+1E907U+1E908U+1E92AU+1E908U+1E909U+1E92BU+1E909U+1E90AU+1E92CU+1E90A",
          "U+1E90BU+1E92DU+1E90BU+1E90CU+1E92EU+1E90CU+1E90DU+1E92FU+1E90DU+1E90EU+1E930U+1E90EU+1E90FU+1E931U+1E90F",
          "U+1E910U+1E932U+1E910U+1E911U+1E933U+1E911U+1E912U+1E934U+1E912U+1E913U+1E935U+1E913U+1E914U+1E936U+1E914",
          "U+1E915U+1E937U+1E915U+1E916U+1E938U+1E916U+1E917U+1E939U+1E917U+1E918U+1E93AU+1E918U+1E919U+1E93BU+1E919",
          "U+1E91AU+1E93CU+1E91AU+1E91BU+1E93DU+1E91BU+1E91CU+1E93EU+1E91CU+1E91DU+1E93FU+1E91DU+1E91EU+1E940U+1E91E",
          "U+1E91FU+1E941U+1E91FU+1E920U+1E942U+1E920U+1E921U+1E943U+1E921U+1E922U+1E922U+1E900U+1E923U+1E923U+1E901",
          "U+1E924U+1E924U+1E902U+1E925U+1E925U+1E903U+1E926U+1E926U+1E904U+1E927U+1E927U+1E905U+1E928U+1E928U+1E906",
          "U+1E929U+1E929U+1E907U+1E92AU+1E92AU+1E908U+1E92BU+1E92BU+1E909U+1E92CU+1E92CU+1E90AU+1E92DU+1E92DU+1E90B",
          "U+1E92EU+1E92EU+1E90CU+1E92FU+1E92FU+1E90DU+1E930U+1E930U+1E90EU+1E931U+1E931U+1E90FU+1E932U+1E932U+1E910",
          "U+1E933U+1E933U+1E911U+1E934U+1E934U+1E912U+1E935U+1E935U+1E913U+1E936U+1E936U+1E914U+1E937U+1E937U+1E915",
          "U+1E938U+1E938U+1E916U+1E939U+1E939U+1E917U+1E93AU+1E93AU+1E918U+1E93BU+1E93BU+1E919U+1E93CU+1E93CU+1E91A",
          "U+1E93DU+1E93DU+1E91BU+1E93EU+1E93EU+1E91CU+1E93FU+1E93FU+1E91DU+1E940U+1E940U+1E91EU+1E941U+1E941U+1E91F",
          "U+1E942U+1E942U+1E920U+1E943U+1E943U+1E921">>
        changes ==
        {<<"U+00DF", <<"U+00DF">>, <<"S", "s">>>>, <<"U+0130", <<"i", "U+0307">>, <<"U+0130">>>>, <<"U+0149", <<"U+0149">>, <<"U+02BC", "N">>>>,
         <<"U+01F0", <<"U+01F0">>, <<"J", "U+030C">>>>, <<"U+0390", <<"U+0390">>, <<"U+0399", "U+0308", "U+0301">>>>, <<"U+03B0", <<"U+03B0">>, <<"U+03A5", "U+0308", "U+0301">>>>,
         <<"U+0587", <<"U+0587">>, <<"U+0535", "U+0582">>>>, <<"U+1E96", <<"U+1E96">>, <<"H", "U+0331">>>>, <<"U+1E97", <<"U+1E97">>, <<"T", "U+0308">>>>,
         <<"U+1E98", <<"U+1E98">>, <<"W", "U+030A">>>>, <<"U+1E99", <<"U+1E99">>, <<"Y", "U+030A">>>>, <<"U+1E9A", <<"U+1E9A">>, <<"A", "U+02BE">>>>,
         <<"U+1F50", <<"U+1F50">>, <<"U+03A5", "U+0313">>>>, <<"U+1F52", <<"U+1F52">>, <<"U+03A5", "U+0313", "U+0300">>>>, <<"U+1F54", <<"U+1F54">>, <<"U+03A5", "U+0313", "U+0301">>>>,
         <<"U+1F56", <<"U+1F56">>, <<"U+03A5", "U+0313", "U+0342">>>>, <<"U+1FB2", <<"U+1FB2">>, <<"U+1FBA", "U+0345">>>>, <<"U+1FB4", <<"U+1FB4">>, <<"U+0386", "U+0345">>>>,
         <<"U+1FB6", <<"U+1FB6">>, <<"U+0391", "U+0342">>>>, <<"U+1FB7", <<"U+1FB7">>, <<"U+0391", "U+0342", "U+0345">>>>, <<"U+1FC2", <<"U+1FC2">>, <<"U+1FCA", "U+0345">>>>,
         <<"U+1FC4", <<"U+1FC4">>, <<"U+0389", "U+0345">>>>, <<"U+1FC6", <<"U+1FC6">>, <<"U+0397", "U+0342">>>>, <<"U+1FC7", <<"U+1FC7">>, <<"U+0397", "U+0342", "U+0345">>>>,
         <<"U+1FD2", <<"U+1FD2">>, <<"U+0399", "U+0308", "U+0300">>>>, <<"U+1FD3", <<"U+1FD3">>, <<"U+0399", "U+0308", "U+0301">>>>, <<"U+1FD6", <<"U+1FD6">>, <<"U+0399", "U+0342">>>>,
         <<"U+1FD7", <<"U+1FD7">>, <<"U+0399", "U+0308", "U+0342">>>>, <<"U+1FE2", <<"U+1FE2">>, <<"U+03A5", "U+0308", "U+0300">>>>, <<"U+1FE3", <<"U+1FE3">>, <<"U+03A5", "U+0308", "U+0301">>>>,
         <<"U+1FE4", <<"U+1FE4">>, <<"U+03A1", "U+0313">>>>, <<"U+1FE6", <<"U+1FE6">>, <<"U+03A5", "U+0342">>>>, <<"U+1FE7", <<"U+1FE7">>, <<"U+03A5", "U+0308", "U+0342">>>>,
         <<"U+1FF2", <<"U+1FF2">>, <<"U+1FFA", "U+0345">>>>, <<"U+1FF4", <<"U+1FF4">>, <<"U+038F", "U+0345">>>>, <<"U+1FF6", <<"U+1FF6">>, <<"U+03A9", "U+0342">>>>,
         <<"U+1FF7", <<"U+1FF7">>, <<"U+03A9", "U+0342", "U+0345">>>>, <<"U+FB00", <<"U+FB00">>, <<"F", "f">>>>, <<"U+FB01", <<"U+FB01">>, <<"F", "i">>>>,
         <<"U+FB02", <<"U+FB02">>, <<"F", "l">>>>, <<"U+FB03", <<"U+FB03">>, <<"F", "f", "i">>>>, <<"U+FB04", <<"U+FB04">>, <<"F", "f", "l">>>>,
         <<"U+FB05", <<"U+FB05">>, <<"S", "t">>>>, <<"U+FB06", <<"U+FB06">>, <<"S", "t">>>>, <<"U+FB13", <<"U+FB13">>, <<"U+0544", "U+0576">>>>,
         <<"U+FB14", <<"U+FB14">>, <<"U+0544", "U+0565">>>>, <<"U+FB15", <<"U+FB15">>, <<"U+0544", "U+056B">>>>, <<"U+FB16", <<"U+FB16">>, <<"U+054E", "U+0576">>>>,
         <<"U+FB17", <<"U+FB17">>, <<"U+0544", "U+056D">>>>}
        table ==
            {<<CodePoint(SubSeq(entry, 1, 7)), <<CodePoint(SubSeq(entry, 8, 14))>>, <<CodePoint(SubSeq(entry, 15, 21))>>>> :
                entry \in Fields(lines, 21)} \cup changes
    IN  [c \in {entry[1] : entry \in table} |->
            LET found == CHOOSE entry \in table : entry[1] = c IN <<found[2], found[3]>>]

IsCased(c) == c \in CASED

\* c.lower() of one code point: a str, of two code points for U+0130
LowerChar(c) == IF c \in DOMAIN CASE_MAP THEN CASE_MAP[c][1] ELSE <<c>>

\* c.title() of one code point: a str, of up to three code points
TitleChar(c) == IF c \in DOMAIN CASE_MAP THEN CASE_MAP[c][2] ELSE <<c>>

\* the lower case of the code point at place i of s. A capital sigma becomes a
\* final sigma when, going back over the case ignorable code points, there is a
\* cased one and, going forward over them, there is none
LowerAt(s, i) ==
    LET before == {j \in 1..(i - 1) : s[j] \notin CASE_IGNORABLE}
        after == {j \in (i + 1)..Len(s) : s[j] \notin CASE_IGNORABLE}
        final_sigma == /\ before # {}
                       /\ IsCased(s[Max(before)])
                       /\ (after = {} \/ ~IsCased(s[Min(after)]))
    IN  IF s[i] = "U+03A3" THEN (IF final_sigma THEN <<"U+03C2">> ELSE <<"U+03C3">>)
        ELSE LowerChar(s[i])

\* s.lower()
Lower(s) ==
    LET lowered[i \in 0..Len(s)] == IF i = 0 THEN <<>> ELSE lowered[i - 1] \o LowerAt(s, i)
    IN  lowered[Len(s)]

\* s.title(): a code point is lower-cased when it follows a cased one and
\* title-cased when it does not
Title(s) ==
    LET titled[i \in 0..Len(s)] ==
            IF i = 0 THEN <<>>
            ELSE titled[i - 1] \o (IF i > 1 /\ IsCased(s[i - 1]) THEN LowerAt(s, i) ELSE TitleChar(s[i]))
    IN  titled[Len(s)]

IsSpace(c) == \E i \in 1..Len(WHITESPACE) : WHITESPACE[i] = c

\* s.strip()
Strip(s) ==
    LET kept == {i \in 1..Len(s) : ~IsSpace(s[i])}
    IN  IF kept = {} THEN <<>> ELSE SubSeq(s, Min(kept), Max(kept))

RECURSIVE Replace(_, _, _)
\* s.replace(old, new) for a non-empty old: leftmost occurrences, not overlapping
Replace(s, old, new) ==
    IF Len(s) = 0 THEN <<>>
    ELSE IF MatchAt(s, old, 1) THEN new \o Replace(SubSeq(s, Len(old) + 1, Len(s)), old, new)
    ELSE <<s[1]>> \o Replace(Tail(s), old, new)

RECURSIVE Decimal(_)
\* str(n) of an int n >= 0
Decimal(n) == IF n < 10 THEN <<DIGITS[n + 1]>> ELSE Decimal(n \div 10) \o <<DIGITS[(n % 10) + 1]>>

(***************************************************************************)
(* Python values: None, str, int, float (in hundredths), list and dict (a  *)
(* dict keeps its keys in insertion order, as json.loads builds it)        *)
(***************************************************************************)
PyNone == [t |-> "NoneType"]

PyStr(s) == [t |-> "str", s |-> s]

PyInt(n) == [t |-> "int", n |-> n]

\* the float h / 100
PyFloat(h) == [t |-> "float", h |-> h]

PyList(items) == [t |-> "list", items |-> items]

PyDict(keys, vals) == [t |-> "dict", keys |-> keys, vals |-> vals]

EmptyDict == PyDict(<<>>, <<>>)

\* bool(v)
Truthy(v) ==
    CASE v.t = "NoneType" -> FALSE
      [] v.t = "str" -> Len(v.s) > 0
      [] v.t = "int" -> v.n # 0
      [] v.t = "float" -> v.h # 0
      [] v.t = "list" -> Len(v.items) > 0
      [] v.t = "dict" -> Len(v.keys) > 0

\* d.get(key, default)
DictGet(d, key, default) ==
    LET at == {i \in 1..Len(d.keys) : d.keys[i] = key}
    IN  IF at = {} THEN default ELSE d.vals[Max(at)]

TypeName(v) ==
    (CASE v.t = "NoneType" -> <<"N", "o", "n", "e", "T", "y", "p", "e">>
       [] v.t = "str" -> <<"s", "t", "r">>
       [] v.t = "int" -> <<"i", "n", "t">>
       [] v.t = "float" -> <<"f", "l", "o", "a", "t">>
       [] v.t = "list" -> <<"l", "i", "s", "t">>
       [] v.t = "dict" -> <<"d", "i", "c", "t">>)

\* str(e) of the AttributeError raised by v.attr
AttributeError(v, attr) == <<"'">> \o TypeName(v) \o ERR_OBJECT \o attr \o <<"'">>

\* str(v) of a float h / 100 with 0 <= h: repr prints the shortest decimal
FloatText(h) ==
    Decimal(h \div 100) \o <<".">> \o
    (IF h % 10 = 0 THEN Decimal((h % 100) \div 10) ELSE Decimal((h % 100) \div 10) \o Decimal(h % 10))

\* str(v), what an f-string field prints (str, int >= 0, float >= 0 and None)
Text(v) ==
    CASE v.t = "str" -> v.s
      [] v.t = "int" -> Decimal(v.n)
      [] v.t = "float" -> FloatText(v.h)
      [] v.t = "NoneType" -> NONE_TEXT

(***************************************************************************)
(* encode_image                                                            *)
(***************************************************************************)
\* base64 of one group of one, two or three bytes
B64Group(b) ==
    LET n == b[1] * 65536 + (IF Len(b) > 1 THEN b[2] * 256 ELSE 0) + (IF Len(b) > 2 THEN b[3] ELSE 0)
    IN  << B64CHARS[(n \div 262144) + 1],
           B64CHARS[((n \div 4096) % 64) + 1],
           IF Len(b) > 1 THEN B64CHARS[((n \div 64) % 64) + 1] ELSE "=",
           IF Len(b) > 2 THEN B64CHARS[(n % 64) + 1] ELSE "=" >>

RECURSIVE b64encode(_)
b64encode(bytes) ==
    IF Len(bytes) = 0 THEN <<>>
    ELSE IF Len(bytes) <= 3 THEN B64Group(bytes)
    ELSE B64Group(SubSeq(bytes, 1, 3)) \o b64encode(SubSeq(bytes, 4, Len(bytes)))

\* an uploaded file: its path, whether open() can read it, and its bytes
File(name, readable, bytes) == [t |-> "file", name |-> name, readable |-> readable, bytes |-> bytes]

\* encode_image(image_path): the base64 text, or the OSError of open()
encode_image(file) ==
    IF file.readable THEN [ok |-> TRUE, v |-> b64encode(file.bytes)] ELSE [ok |-> FALSE, v |-> <<>>]

(***************************************************************************)
(* Literals of src/app.py                                                  *)
(***************************************************************************)
MSG_NO_SCREENSHOTS == <<"P", "l", "e", "a", "s", "e", " ", "u", "p", "l", "o", "a", "d", " ", "a", "t", " ", "l", "e", "a", "s", "t", " ", "o", "n", "e", " ", "s", "c", "r", "e", "e", "n", "s", "h", "o", "t", " ", "t", "o", " ", "a", "n", "a", "l", "y", "s", "e", ".">>
SK_PREFIX == <<"s", "k", "-">>
MSG_INVALID_KEY == <<"*", "*", "I", "n", "v", "a", "l", "i", "d", " ", "A", "P", "I", " ", "K", "e", "y", "*", "*", ":", " ", "P", "l", "e", "a", "s", "e", " ", "e", "n", "t", "e", "r", " ", "a", " ", "v", "a", "l", "i", "d", " ", "O", "p", "e", "n", "A", "I", " ", "A", "P", "I", " ", "k", "e", "y", " ", "s", "t", "a", "r", "t", "i", "n", "g", " ", "w", "i", "t", "h", " ", "'", "s", "k", "-", "'">>
DATA_URL_PREFIX == <<"d", "a", "t", "a", ":", "i", "m", "a", "g", "e", "/", "j", "p", "e", "g", ";", "b", "a", "s", "e", "6", "4", ",">>
MSG_PARSE_ERROR == <<"E", "r", "r", "o", "r", " ", "p", "a", "r", "s", "i", "n", "g", " ", "r", "e", "s", "p", "o", "n", "s", "e", ".", " ", "R", "a", "w", " ", "o", "u", "t", "p", "u", "t", ":", "\n">>
API_KEY_MARK == <<"A", "P", "I", " ", "k", "e", "y">>
MSG_CONNECTION_ERROR == <<"*", "*", "C", "o", "n", "n", "e", "c", "t", "i", "o", "n", " ", "E", "r", "r", "o", "r", "*", "*", ":", " ", "P", "l", "e", "a", "s", "e", " ", "c", "h", "e", "c", "k", " ", "y", "o", "u", "r", " ", "O", "p", "e", "n", "A", "I", " ", "A", "P", "I", " ", "k", "e", "y", " ", "i", "s", " ", "v", "a", "l", "i", "d", " ", "a", "n", "d", " ", "h", "a", "s", " ", "s", "u", "f", "f", "i", "c", "i", "e", "n", "t", " ", "c", "r", "e", "d", "i", "t", "s", ".">>
RATE_LIMIT_MARK == <<"r", "a", "t", "e", " ", "l", "i", "m", "i", "t">>
MSG_RATE_LIMIT_ERROR == <<"*", "*", "R", "a", "t", "e", " ", "L", "i", "m", "i", "t", " ", "E", "r", "r", "o", "r", "*", "*", ":", " ", "T", "o", "o", " ", "m", "a", "n", "y", " ", "r", "e", "q", "u", "e", "s", "t", "s", ".", " ", "P", "l", "e", "a", "s", "e", " ", "w", "a", "i", "t", " ", "a", " ", "m", "o", "m", "e", "n", "t", " ", "a", "n", "d", " ", "t", "r", "y", " ", "a", "g", "a", "i", "n", ".">>
MSG_ANALYSIS_FAILED == <<"A", "n", "a", "l", "y", "s", "i", "s", " ", "f", "a", "i", "l", "e", "d", ":", " ">>
MSG_ANALYSIS_RETRY == <<".", " ", "P", "l", "e", "a", "s", "e", " ", "t", "r", "y", " ", "a", "g", "a", "i", "n", " ", "w", "i", "t", "h", " ", "a", "n", "o", "t", "h", "e", "r", " ", "s", "c", "r", "e", "e", "n", "s", "h", "o", "t">>
SEV_CRITICAL == <<"c", "r", "i", "t", "i", "c", "a", "l">>
EMOJI_CRITICAL == <<"U+1F534">>
SEV_WARNING == <<"w", "a", "r", "n", "i", "n", "g">>
EMOJI_WARNING == <<"U+1F7E1">>
SEV_INFO == <<"i", "n", "f", "o">>
EMOJI_INFO == <<"U+1F535">>
K_ERROR_ANALYSIS == <<"e", "r", "r", "o", "r", "_", "a", "n", "a", "l", "y", "s", "i", "s">>
K_ENVIRONMENT == <<"e", "n", "v", "i", "r", "o", "n", "m", "e", "n", "t">>
K_SCREENSHOT_BREAKDOWN == <<"s", "c", "r", "e", "e", "n", "s", "h", "o", "t", "_", "b", "r", "e", "a", "k", "d", "o", "w", "n">>
K_SEVERITY == <<"s", "e", "v", "e", "r", "i", "t", "y">>
SEV_UNKNOWN == <<"u", "n", "k", "n", "o", "w", "n">>
EMOJI_DEFAULT == <<"U+26AA">>
SECTION_HEADER == <<"\n", "#", "#", " ", "S", "c", "r", "e", "e", "n", "s", "h", "o", "t", " ", "A", "n", "a", "l", "y", "s", "i", "s", "\n", "\n">>
KEY_PREFIX == <<"s", "c", "r", "e", "e", "n", "s", "h", "o", "t", "_">>
UNDERSCORE == <<"_">>
SPACE == <<" ">>
LINE_OPEN == <<"*", "*", "S", "c", "r", "e", "e", "n", "s", "h", "o", "t", " ">>
LINE_MID == <<":", "*", "*", " ">>
LINE_END == <<" ", " ", "\n">>
FT_HEAD == <<"#", "#", " ">>
FT_TYPE == <<" ", "E", "r", "r", "o", "r", " ", "A", "n", "a", "l", "y", "s", "i", "s", "\n", "\n", "*", "*", "T", "y", "p", "e", ":", "*", "*", " ">>
K_ERROR_TYPE == <<"e", "r", "r", "o", "r", "_", "t", "y", "p", "e">>
DEF_ERROR_TYPE == <<"U", "n", "k", "n", "o", "w", "n">>
FT_SEVERITY == <<" ", "E", "r", "r", "o", "r", " ", " ", "\n", "*", "*", "S", "e", "v", "e", "r", "i", "t", "y", ":", "*", "*", " ">>
FT_LOCATION == <<" ", " ", "\n", "*", "*", "L", "o", "c", "a", "t", "i", "o", "n", ":", "*", "*", " ">>
K_LOCATION == <<"l", "o", "c", "a", "t", "i", "o", "n">>
DEF_NOT_SPECIFIED == <<"N", "o", "t", " ", "s", "p", "e", "c", "i", "f", "i", "e", "d">>
FT_LANGUAGE == <<" ", " ", "\n", "*", "*", "L", "a", "n", "g", "u", "a", "g", "e", ":", "*", "*", " ">>
K_LANGUAGE == <<"l", "a", "n", "g", "u", "a", "g", "e">>
DEF_NOT_DETECTED == <<"N", "o", "t", " ", "d", "e", "t", "e", "c", "t", "e", "d">>
FT_COUNT == <<" ", " ", "\n", "*", "*", "S", "c", "r", "e", "e", "n", "s", "h", "o", "t", "s", " ", "A", "n", "a", "l", "y", "s", "e", "d", ":", "*", "*", " ">>
K_SCREENSHOTS_ANALYSED == <<"s", "c", "r", "e", "e", "n", "s", "h", "o", "t", "s", "_", "a", "n", "a", "l", "y", "s", "e", "d">>
FT_IDE == <<"\n", "\n", "#", "#", " ", "U+1F5A5", "U+FE0F", " ", "E", "n", "v", "i", "r", "o", "n", "m", "e", "n", "t", "\n", "\n", "*", "*", "I", "D", "E", ":", "*", "*", " ">>
K_IDE == <<"i", "d", "e">>
FT_FRAMEWORK == <<" ", " ", "\n", "*", "*", "F", "r", "a", "m", "e", "w", "o", "r", "k", ":", "*", "*", " ">>
K_FRAMEWORK == <<"f", "r", "a", "m", "e", "w", "o", "r", "k">>
FT_SECTION == <<"\n", "\n">>
FT_EXTRACTED == <<"\n", "\n", "#", "#", " ", "U+1F4DD", " ", "E", "x", "t", "r", "a", "c", "t", "e", "d", " ", "T", "e", "x", "t", "\n", "\n">>
K_EXTRACTED_TEXT == <<"e", "x", "t", "r", "a", "c", "t", "e", "d", "_", "t", "e", "x", "t">>
DEF_NO_TEXT == <<"N", "o", " ", "t", "e", "x", "t", " ", "e", "x", "t", "r", "a", "c", "t", "e", "d">>
FT_SOLUTION == <<"\n", "\n", "#", "#", " ", "U+1F4A1", " ", "S", "o", "l", "u", "t", "i", "o", "n", "\n", "\n">>
K_SOLUTION == <<"s", "o", "l", "u", "t", "i", "o", "n">>
DEF_NO_SOLUTION == <<"N", "o", " ", "s", "o", "l", "u", "t", "i", "o", "n", " ", "p", "r", "o", "v", "i", "d", "e", "d">>
FT_CONFIDENCE == <<"\n", "\n", "*", "*", "C", "o", "n", "f", "i", "d", "e", "n", "c", "e", ":", "*", "*", " ">>
K_CONFIDENCE == <<"c", "o", "n", "f", "i", "d", "e", "n", "c", "e">>
FT_PERCENT == <<"%">>
MSG_FORMAT_ERROR == <<"E", "r", "r", "o", "r", " ", "f", "o", "r", "m", "a", "t", "t", "i", "n", "g", " ", "t", "h", "e", " ", "d", "i", "s", "p", "l", "a", "y", ":", " ">>
MSG_ASK_QUESTION == <<"P", "l", "e", "a", "s", "e", " ", "a", "s", "k", " ", "a", " ", "q", "u", "e", "s", "t", "i", "o", "n", ".">>
MSG_FOLLOWUP_INVALID_KEY == <<"P", "l", "e", "a", "s", "e", " ", "e", "n", "t", "e", "r", " ", "a", " ", "v", "a", "l", "i", "d", " ", "O", "p", "e", "n", "A", "I", " ", "A", "P", "I", " ", "k", "e", "y", " ", "a", "b", "o", "v", "e", ".">>
YOU_PREFIX == <<"*", "*", "Y", "o", "u", ":", "*", "*", " ">>
ASSISTANT_SEP == <<"\n", "\n", "*", "*", "A", "s", "s", "i", "s", "t", "a", "n", "t", ":", "*", "*", " ">>
SENTINEL == <<"Y", "o", "u", "r", " ", "c", "o", "n", "v", "e", "r", "s", "a", "t", "i", "o", "n", " ", "w", "i", "l", "l", " ", "a", "p", "p", "e", "a", "r", " ", "h", "e", "r", "e", " ", "a", "f", "t", "e", "r", " ", "y", "o", "u", " ", "s", "t", "a", "r", "t", " ", "a", "s", "k", "i", "n", "g", " ", "q", "u", "e", "s", "t", "i", "o", "n", "s", ".", ".", ".">>
BLANK_LINE == <<"\n", "\n">>
MSG_FOLLOWUP_CONNECTION == <<"*", "*", "A", "s", "s", "i", "s", "t", "a", "n", "t", ":", "*", "*", " ", "I", "'", "m", " ", "h", "a", "v", "i", "n", "g", " ", "t", "r", "o", "u", "b", "l", "e", " ", "c", "o", "n", "n", "e", "c", "t", "i", "n", "g", " ", "t", "o", " ", "t", "h", "e", " ", "A", "I", " ", "s", "e", "r", "v", "i", "c", "e", ".", " ", "P", "l", "e", "a", "s", "e", " ", "c", "h", "e", "c", "k", " ", "y", "o", "u", "r", " ", "A", "P", "I", " ", "k", "e", "y", ".">>
MSG_FOLLOWUP_RATE_LIMIT == <<"*", "*", "A", "s", "s", "i", "s", "t", "a", "n", "t", ":", "*", "*", " ", "I", "'", "m", " ", "r", "e", "c", "e", "i", "v", "i", "n", "g", " ", "t", "o", "o", " ", "m", "a", "n", "y", " ", "r", "e", "q", "u", "e", "s", "t", "s", ".", " ", "P", "l", "e", "a", "s", "e", " ", "w", "a", "i", "t", " ", "a", " ", "m", "o", "m", "e", "n", "t", " ", "a", "n", "d", " ", "t", "r", "y", " ", "a", "g", "a", "i", "n", ".">>
MSG_FOLLOWUP_ERROR == <<"*", "*", "A", "s", "s", "i", "s", "t", "a", "n", "t", ":", "*", "*", " ", "S", "o", "r", "r", "y", ",", " ", "I", " ", "e", "n", "c", "o", "u", "n", "t", "e", "r", "e", "d", " ", "a", "n", " ", "e", "r", "r", "o", "r", ":", " ">>
MSG_FOLLOWUP_RETRY == <<".", " ", "P", "l", "e", "a", "s", "e", " ", "t", "r", "y", " ", "a", "g", "a", "i", "n", ".">>
MSG_WRAPPER_INVALID_KEY == <<"*", "*", "P", "l", "e", "a", "s", "e", " ", "e", "n", "t", "e", "r", " ", "a", " ", "v", "a", "l", "i", "d", " ", "O", "p", "e", "n", "A", "I", " ", "A", "P", "I", " ", "k", "e", "y", " ", "a", "b", "o", "v", "e", "*", "*">>
MSG_ANALYSING == <<"\n", "\n", "*", "*", "A", "n", "a", "l", "y", "s", "i", "n", "g", ".", ".", ".", "*", "*", "\n", "\n", "P", "l", "e", "a", "s", "e", " ", "w", "a", "i", "t", " ", "w", "h", "i", "l", "e", " ", "I", " ", "i", "d", "e", "n", "t", "i", "f", "y", " ", "t", "h", "e", " ", "i", "s", "s", "u", "e", ".">>
INITIAL_TRANSCRIPT == <<"Y", "o", "u", "r", " ", "c", "o", "n", "v", "e", "r", "s", "a", "t", "i", "o", "n", " ", "w", "i", "l", "l", " ", "a", "p", "p", "e", "a", "r", " ", "h", "e", "r", "e", " ", "a", "f", "t", "e", "r", " ", "y", "o", "u", " ", "s", "t", "a", "r", "t", " ", "a", "s", "k", "i", "n", "g", " ", "q", "u", "e", "s", "t", "i", "o", "n", "s", ".", ".", ".">>

(***************************************************************************)
(* format_json_for_display                                                 *)
(***************************************************************************)
\* the outcome of an expression that may raise: its value, or str(e)
Ok(v) == [ok |-> TRUE, v |-> v]

Raise(e) == [ok |-> FALSE, e |-> e]

\* severity_emoji.get(severity, default), for a hashable severity
SeverityEmoji(severity) ==
    IF severity = PyStr(SEV_CRITICAL) THEN EMOJI_CRITICAL
    ELSE IF severity = PyStr(SEV_WARNING) THEN EMOJI_WARNING
    ELSE IF severity = PyStr(SEV_INFO) THEN EMOJI_INFO
    ELSE EMOJI_DEFAULT

\* key.replace("screenshot_", "").replace("_", " ").title()
ScreenshotNum(key) == Title(Replace(Replace(key, KEY_PREFIX, <<>>), UNDERSCORE, SPACE))

RECURSIVE ScreenshotLines(_, _)
\* the loop over screenshot_breakdown.items(), in the dict's own order
ScreenshotLines(keys, vals) ==
    IF Len(keys) = 0 THEN <<>>
    ELSE (IF Truthy(Head(vals))
          THEN LINE_OPEN \o ScreenshotNum(Head(keys)) \o LINE_MID \o Text(Head(vals)) \o LINE_END
          ELSE <<>>) \o ScreenshotLines(Tail(keys), Tail(vals))

ScreenshotSection(screenshot_breakdown) ==
    IF ~Truthy(screenshot_breakdown) THEN Ok(<<>>)
    ELSE IF screenshot_breakdown.t # "dict" THEN Raise(AttributeError(screenshot_breakdown, ATTR_ITEMS))
    ELSE Ok(SECTION_HEADER \o ScreenshotLines(screenshot_breakdown.keys, screenshot_breakdown.vals))

IsDigits(s) == Len(s) > 0 /\ \A i \in 1..Len(s) : \E d \in 1..10 : DIGITS[d] = s[i]

RECURSIVE DigitsValue(_)
DigitsValue(s) == IF Len(s) = 0 THEN 0 ELSE DigitsValue(SubSeq(s, 1, Len(s) - 1)) * 10 + (CHOOSE d \in 1..10 : DIGITS[d] = s[Len(s)]) - 1

\* repr(s) of a str of ASCII, Latin-1, cased and whitespace code points: in single
\* quotes, or in double quotes when s has a single quote and no double one; the
\* backslash and the quote in use escaped, a code point that is not printable as
\* \t, \n, \r, \xhh or \uhhhh
Repr(s) ==
    LET quote == IF (\E i \in 1..Len(s) : s[i] = "'") /\ ~(\E i \in 1..Len(s) : s[i] = "\"") THEN "\"" ELSE "'"
        hex(digits) == [k \in 1..Len(digits) |-> LowerChar(SubSeq(digits, k, k))[1]]
        escaped(c) ==
            IF c = "\\" \/ c = quote THEN <<"\\", c>>
            ELSE IF c = "\t" THEN <<"\\", "t">>
            ELSE IF c = "\n" THEN <<"\\", "n">>
            ELSE IF c = "U+000D" THEN <<"\\", "r">>
            ELSE IF Len(c) = 1 \/ c = "U+0060" \/ IsCased(c) THEN <<c>>
            ELSE IF Len(c) = 6 /\ SubSeq(c, 1, 4) = "U+00"
            THEN (IF SubSeq(c, 5, 5) \in {"0", "1", "7", "8", "9"} \/ c \in {"U+00A0", "U+00AD"}
                  THEN <<"\\", "x">> \o hex(SubSeq(c, 5, 6))
                  ELSE <<c>>)
            ELSE CASE IsSpace(c) -> <<"\\", "u">> \o hex(SubSeq(c, 3, 6))
        body[i \in 0..Len(s)] == IF i = 0 THEN <<>> ELSE body[i - 1] \o escaped(s[i])
    IN  <<quote>> \o body[Len(s)] \o <<quote>>

\* float(v) in hundredths: of a number; of a str that, between the whitespace
\* float() skips, is "d", "d.d" or "d.dd"; or the TypeError of None, a list or a
\* dict and the ValueError of a str that is empty there or has a code point no
\* float is written with. float() skips the whitespace of str.strip() other than
\* U+001C..U+001F. A str of digits, signs, ".", "e" and "_" in another form, one
\* that names nan or an infinity, and one with a code point outside ASCII, Latin-1,
\* the cased ones and whitespace have no value here
ToFloat(v) ==
    CASE v.t = "int" -> Ok(v.n * 100)
      [] v.t = "float" -> Ok(v.h)
      [] v.t \in {"NoneType", "list", "dict"} -> Raise(ERR_FLOAT_ARG \o TypeName(v) \o <<"'">>)
      [] v.t = "str" ->
            LET skipped(c) == IsSpace(c) /\ c \notin {"U+001C", "U+001D", "U+001E", "U+001F"}
                kept == {i \in 1..Len(v.s) : ~skipped(v.s[i])}
                text == IF kept = {} THEN <<>> ELSE SubSeq(v.s, Min(kept), Max(kept))
                dot == Find(text, <<".">>)
                frac == SubSeq(text, dot + 1, Len(text))
                unsigned == IF text # <<>> /\ text[1] \in {"+", "-"} THEN Tail(text) ELSE text
                known(c) == Len(c) = 1 \/ c = "U+0060" \/ IsCased(c) \/ IsSpace(c)
                            \/ (Len(c) = 6 /\ SubSeq(c, 1, 4) = "U+00")
                numeric(c) == IsDigits(<<c>>) \/ c \in {".", "e", "E", "+", "-", "_"}
            IN  CASE IsDigits(text) -> Ok(DigitsValue(text) * 100)
                  [] dot > 1 /\ Len(text) - dot \in 1..2 /\ IsDigits(SubSeq(text, 1, dot - 1)) /\ IsDigits(frac) ->
                        Ok(DigitsValue(SubSeq(text, 1, dot - 1)) * 100
                           + (IF Len(frac) = 1 THEN DigitsValue(frac) * 10 ELSE DigitsValue(frac)))
                  [] \/ text = <<>>
                     \/ /\ \A i \in 1..Len(text) : known(text[i])
                        /\ \E i \in 1..Len(text) : ~numeric(text[i])
                        /\ Lower(unsigned) \notin {<<"n", "a", "n">>, <<"i", "n", "f">>,
                                                    <<"i", "n", "f", "i", "n", "i", "t", "y">>} ->
                        Raise(ERR_FLOAT_STR \o Repr(v.s))

\* the except branch: f"Error formatting the display: {str(e)}"
FormatError(e) == MSG_FORMAT_ERROR \o e

format_json_for_display(data) ==
    IF data.t # "dict" THEN FormatError(AttributeError(data, ATTR_GET))
    ELSE
    LET error_analysis == DictGet(data, K_ERROR_ANALYSIS, EmptyDict)
        environment == DictGet(data, K_ENVIRONMENT, EmptyDict)
        screenshot_breakdown == DictGet(data, K_SCREENSHOT_BREAKDOWN, EmptyDict)
    IN
    IF error_analysis.t # "dict" THEN FormatError(AttributeError(error_analysis, ATTR_GET))
    ELSE
    LET severity == DictGet(error_analysis, K_SEVERITY, PyStr(SEV_UNKNOWN))
        error_type == DictGet(error_analysis, K_ERROR_TYPE, PyStr(DEF_ERROR_TYPE))
        screenshot_section == ScreenshotSection(screenshot_breakdown)
        confidence == ToFloat(DictGet(data, K_CONFIDENCE, PyInt(0)))
    IN
    IF severity.t \in {"list", "dict"} THEN FormatError(ERR_UNHASHABLE \o TypeName(severity) \o <<"'">>)
    ELSE IF ~screenshot_section.ok THEN FormatError(screenshot_section.e)
    ELSE IF error_type.t # "str" THEN FormatError(AttributeError(error_type, ATTR_TITLE))
    ELSE IF severity.t # "str" THEN FormatError(AttributeError(severity, ATTR_TITLE))
    ELSE IF environment.t # "dict" THEN FormatError(AttributeError(environment, ATTR_GET))
    ELSE IF ~confidence.ok THEN FormatError(confidence.e)
    ELSE FT_HEAD \o SeverityEmoji(severity)
         \o FT_TYPE \o Title(error_type.s)
         \o FT_SEVERITY \o Title(severity.s)
         \o FT_LOCATION \o Text(DictGet(error_analysis, K_LOCATION, PyStr(DEF_NOT_SPECIFIED)))
         \o FT_LANGUAGE \o Text(DictGet(error_analysis, K_LANGUAGE, PyStr(DEF_NOT_DETECTED)))
         \o FT_COUNT \o Text(DictGet(data, K_SCREENSHOTS_ANALYSED, PyInt(1)))
         \o FT_IDE \o Text(DictGet(environment, K_IDE, PyStr(DEF_NOT_DETECTED)))
         \o FT_FRAMEWORK \o Text(DictGet(environment, K_FRAMEWORK, PyStr(DEF_NOT_DETECTED)))
         \o FT_SECTION \o screenshot_section.v
         \o FT_EXTRACTED \o Text(DictGet(data, K_EXTRACTED_TEXT, PyStr(DEF_NO_TEXT)))
         \o FT_SOLUTION \o Text(DictGet(data, K_SOLUTION, PyStr(DEF_NO_SOLUTION)))
         \o FT_CONFIDENCE \o Decimal(confidence.v)
         \o FT_PERCENT

(***************************************************************************)
(* The model capability: one chat completion either raises an error with   *)
(* a description, or returns a message whose content is None, a text that  *)
(* is not a JSON document (a str), or the JSON document of a value.        *)
(***************************************************************************)
MODEL_GPT == "gpt-4o"

Raises(e) == [kind |-> "raise", e |-> e]

Returns(content) == [kind |-> "content", content |-> content]

\* a response text that is the JSON document of value
JsonText(value) == [t |-> "json", value |-> value]

\* json.loads(response_text): the document's value with its keys in document
\* order, JSONDecodeError for a text that is no document, TypeError for None
json_loads(response_text) ==
    CASE response_text.t = "json" -> [ok |-> TRUE, v |-> response_text.value, decode_error |-> FALSE, e |-> <<>>]
      [] response_text.t = "str" -> [ok |-> FALSE, v |-> PyNone, decode_error |-> TRUE, e |-> <<>>]
      [] response_text.t = "NoneType" -> [ok |-> FALSE, v |-> PyNone, decode_error |-> FALSE, e |-> ERR_JSON_ARG]

(***************************************************************************)
(* analyse_screenshots                                                     *)
(***************************************************************************)
\* not api_key or not api_key.startswith('sk-')
InvalidKey(api_key) == ~Truthy(api_key) \/ ~StartsWith(api_key.s, SK_PREFIX)

\* what a call hands back: the returned pair, or an exception that leaves the
\* function (raised), with the model requests it issued on the way
Returned(text, data, requests) == [raised |-> FALSE, text |-> text, data |-> data, requests |-> requests]

Unhandled(requests) == [raised |-> TRUE, text |-> <<>>, data |-> PyNone, requests |-> requests]

\* the files of the loop that pass `if file is not None`, in list order
PresentFiles(uploaded_files) == SelectSeq(uploaded_files.items, LAMBDA file : file # PyNone)

\* image_content: one image part per present file, in list order
ImageContent(uploaded_files) ==
    LET present == PresentFiles(uploaded_files)
    IN  [i \in 1..Len(present) |->
            [type |-> "image_url", url |-> DATA_URL_PREFIX \o encode_image(present[i]).v]]

\* messages: the interpolated count of the system message and the user content
AnalysisRequest(user_prompt, uploaded_files) ==
    [model |-> MODEL_GPT,
     screenshots |-> Len(uploaded_files.items),
     user_content |-> <<[type |-> "text", text |-> user_prompt]>> \o ImageContent(uploaded_files),
     temperature |-> "0.3",
     response_format |-> "json_object"]

\* a classification that tests "rate limit" before "API key"
AnalysisErrorMessageRateFirst(e) ==
    IF Contains(Lower(e), RATE_LIMIT_MARK) THEN MSG_RATE_LIMIT_ERROR
    ELSE IF Contains(e, API_KEY_MARK) THEN MSG_CONNECTION_ERROR
    ELSE MSG_ANALYSIS_FAILED \o e \o MSG_ANALYSIS_RETRY

\* the except branch of analyse_screenshots
AnalysisErrorMessage(e) ==
    IF Contains(e, API_KEY_MARK) THEN MSG_CONNECTION_ERROR
    ELSE IF Contains(Lower(e), RATE_LIMIT_MARK) THEN MSG_RATE_LIMIT_ERROR
    ELSE MSG_ANALYSIS_FAILED \o e \o MSG_ANALYSIS_RETRY

\* the try block, given what the model call did
AnalysisResponse(reply, requests) ==
    IF reply.kind = "raise" THEN Returned(AnalysisErrorMessage(reply.e), PyNone, requests)
    ELSE
    LET parsed == json_loads(reply.content)
    IN  IF parsed.ok THEN Returned(format_json_for_display(parsed.v), parsed.v, requests)
        ELSE IF parsed.decode_error THEN Returned(MSG_PARSE_ERROR \o reply.content.s, PyNone, requests)
        ELSE Returned(AnalysisErrorMessage(parsed.e), PyNone, requests)

analyse_screenshots(user_prompt, uploaded_files, api_key, reply) ==
    IF ~Truthy(uploaded_files) THEN Returned(MSG_NO_SCREENSHOTS, PyNone, <<>>)
    ELSE IF InvalidKey(api_key) THEN Returned(MSG_INVALID_KEY, PyNone, <<>>)
    ELSE IF \E i \in 1..Len(PresentFiles(uploaded_files)) : ~encode_image(PresentFiles(uploaded_files)[i]).ok
         THEN Unhandled(<<>>)
    ELSE AnalysisResponse(reply, <<AnalysisRequest(user_prompt, uploaded_files)>>)

(***************************************************************************)
(* followup_conversation                                                   *)
(***************************************************************************)
Answered(transcript, status, requests) ==
    [raised |-> FALSE, answered |-> TRUE, transcript |-> transcript, status |-> status, requests |-> requests]

Refused(transcript, status, requests) ==
    [raised |-> FALSE, answered |-> FALSE, transcript |-> transcript, status |-> status, requests |-> requests]

Faulted(transcript) ==
    [raised |-> TRUE, answered |-> FALSE, transcript |-> transcript, status |-> <<>>, requests |-> <<>>]

\* messages: the values interpolated into the system message, and the question
FollowupRequest(user_question, conversation_history, analysis_data) ==
    [model |-> MODEL_GPT,
     screenshots_count |-> IF Truthy(analysis_data) THEN DictGet(analysis_data, K_SCREENSHOTS_ANALYSED, PyInt(1)) ELSE PyNone,
     analysis_data |-> IF Truthy(analysis_data) THEN analysis_data ELSE PyNone,
     conversation_history |-> conversation_history,
     user_content |-> user_question,
     temperature |-> "0.7"]

\* the except branch of followup_conversation
FollowupErrorMessage(e) ==
    IF Contains(e, API_KEY_MARK) THEN MSG_FOLLOWUP_CONNECTION
    ELSE IF Contains(Lower(e), RATE_LIMIT_MARK) THEN MSG_FOLLOWUP_RATE_LIMIT
    ELSE MSG_FOLLOWUP_ERROR \o e \o MSG_FOLLOWUP_RETRY

\* a follow-up that records its failure in the transcript
FollowupFailureAppends(conversation_history, e, requests) ==
    Refused(conversation_history \o BLANK_LINE \o FollowupErrorMessage(e), FollowupErrorMessage(e), requests)

\* the except branch's return: the transcript as it was passed in, and the message
FollowupFailure(conversation_history, e, requests) ==
    Refused(conversation_history, FollowupErrorMessage(e), requests)

\* f"**You:** {user_question}\n\n**Assistant:** {assistant_response}"
NewExchange(user_question, assistant_response) ==
    YOU_PREFIX \o user_question \o ASSISTANT_SEP \o Text(assistant_response)

\* a join rule that tests the transcript's length where the code tests its strip()
UpdatedConversationNoStrip(conversation_history, new_exchange) ==
    IF conversation_history = SENTINEL THEN new_exchange
    ELSE IF Len(conversation_history) > 0 THEN conversation_history \o BLANK_LINE \o new_exchange
    ELSE new_exchange

\* a join rule that puts the newest exchange first
UpdatedConversationPrepends(conversation_history, new_exchange) ==
    IF conversation_history = SENTINEL THEN new_exchange
    ELSE IF Len(Strip(conversation_history)) > 0 THEN new_exchange \o BLANK_LINE \o conversation_history
    ELSE new_exchange

UpdatedConversation(conversation_history, new_exchange) ==
    IF conversation_history = SENTINEL THEN new_exchange
    ELSE IF Len(Strip(conversation_history)) > 0 THEN conversation_history \o BLANK_LINE \o new_exchange
    ELSE new_exchange

followup_conversation(user_question, conversation_history, analysis_data, api_key, reply) ==
    IF Len(Strip(user_question)) = 0 THEN Refused(conversation_history, MSG_ASK_QUESTION, <<>>)
    ELSE IF InvalidKey(api_key) THEN Refused(conversation_history, MSG_FOLLOWUP_INVALID_KEY, <<>>)
    ELSE IF Truthy(analysis_data) /\ analysis_data.t # "dict" THEN Faulted(conversation_history)
    ELSE
    LET requests == <<FollowupRequest(user_question, conversation_history, analysis_data)>>
    IN  IF reply.kind = "raise"
        THEN FollowupFailure(conversation_history, reply.e, requests)
        ELSE Answered(UpdatedConversation(conversation_history, NewExchange(user_question, reply.content)), <<>>, requests)

followup_with_api_key(user_question, conversation_history, analysis_data, api_key, reply) ==
    IF InvalidKey(api_key) THEN Refused(conversation_history, MSG_FOLLOWUP_INVALID_KEY, <<>>)
    ELSE followup_conversation(user_question, conversation_history, analysis_data, api_key, reply)

(***************************************************************************)
(* Inputs: what the user types and uploads, and what the model capability  *)
(* and the file system answer                                              *)
(***************************************************************************)
KEY_BAD == PyStr(<<"b", "a", "d", "-", "k", "e", "y">>)

KEY_GOOD == PyStr(<<"s", "k", "-", "a", "b", "c">>)

ApiKeys == {PyNone, PyStr(<<>>), KEY_BAD, KEY_GOOD}

Prompts == {<<>>, <<"c", "r", "a", "s", "h", " ", "o", "n", " ", "s", "t", "a", "r", "t", "u", "p">>}

FILE_A == File(<<"/", "t", "m", "p", "/", "a", ".", "p", "n", "g">>, TRUE, <<137, 80, 78, 71>>)

FILE_B == File(<<"/", "t", "m", "p", "/", "b", ".", "j", "p", "g">>, TRUE, <<255, 216>>)

FILE_GONE == File(<<"/", "t", "m", "p", "/", "g", "o", "n", "e", ".", "p", "n", "g">>, FALSE, <<>>)

FileLists ==
    {PyNone, PyList(<<>>), PyList(<<FILE_A>>), PyList(<<PyNone>>), PyList(<<FILE_B, FILE_A>>),
     PyList(<<FILE_A, PyNone, FILE_B>>), PyList(<<FILE_GONE>>), PyList(<<FILE_A, FILE_GONE>>)}

ERR_AUTH_AND_RATE == <<"r", "a", "t", "e", " ", "l", "i", "m", "i", "t", " ", "c", "h", "e", "c", "k", " ", "f", "a", "i", "l", "e", "d", ":", " ", "A", "P", "I", " ", "k", "e", "y", " ", "r", "e", "v", "o", "k", "e", "d">>

ERR_RATE == <<"R", "a", "t", "e", " ", "l", "i", "m", "i", "t", " ", "r", "e", "a", "c", "h", "e", "d", " ", "f", "o", "r", " ", "g", "p", "t", "-", "4", "o">>

ERR_CONNECTION == <<"C", "o", "n", "n", "e", "c", "t", "i", "o", "n", " ", "e", "r", "r", "o", "r", ".">>

\* descriptions str(e) of errors the model call can raise: some name "API key",
\* some "rate limit" in one letter case or another, some both, some neither;
\* the last two have letters outside ASCII, and the dotted capital I of the last
\* lower-cases to two code points, which leaves no "rate limit" in it
Errors ==
    {ERR_AUTH_AND_RATE, ERR_RATE, ERR_CONNECTION,
     <<"I", "n", "c", "o", "r", "r", "e", "c", "t", " ", "A", "P", "I", " ", "k", "e", "y", " ", "p", "r", "o", "v", "i", "d", "e", "d", ":", " ", "s", "k", "-", "a", "b", "c">>,
     <<"R", "A", "T", "E", " ", "L", "I", "M", "I", "T", " ", "E", "X", "C", "E", "E", "D", "E", "D">>,
     <<"i", "n", "v", "a", "l", "i", "d", " ", "a", "p", "i", " ", "k", "e", "y">>,
     <<"R", "A", "T", "E", " ", "L", "I", "M", "I", "T", " ", "D", "U+00C9", "P", "A", "S", "S", "U+00C9">>,
     <<"R", "A", "T", "E", " ", "L", "U+0130", "M", "U+0130", "T">>}

DESCRIPTIONS == <<PyStr(<<"s", "h", "o", "w", "s", " ", "s", "t", "a", "c", "k", " ", "t", "r", "a", "c", "e">>), PyStr(<<"s", "h", "o", "w", "s", " ", "M", "a", "i", "n", ".", "j", "a", "v", "a">>), PyStr(<<"s", "h", "o", "w", "s", " ", "t", "h", "e", " ", "c", "o", "n", "s", "o", "l", "e">>)>>

\* the orders in which a document can list the keys screenshot_1..screenshot_3
BreakdownOrders == {o \in [1..3 -> 1..3] : \A i, j \in 1..3 : o[i] = o[j] => i = j}

Breakdown(order) ==
    PyDict(<<KEY_PREFIX \o Decimal(order[1]), KEY_PREFIX \o Decimal(order[2]), KEY_PREFIX \o Decimal(order[3])>>,
           <<DESCRIPTIONS[order[1]], DESCRIPTIONS[order[2]], DESCRIPTIONS[order[3]]>>)

ERROR_ANALYSIS ==
    PyDict(<<K_ERROR_TYPE, K_SEVERITY, K_LOCATION, K_LANGUAGE>>,
           <<PyStr(<<"r", "u", "n", "t", "i", "m", "e">>), PyStr(SEV_CRITICAL), PyStr(<<"M", "a", "i", "n", ".", "j", "a", "v", "a", ":", "4", "2">>), PyStr(<<"J", "a", "v", "a">>)>>)

ENVIRONMENT == PyDict(<<K_IDE, K_FRAMEWORK>>, <<PyStr(<<"I", "n", "t", "e", "l", "l", "i", "J">>), PyStr(<<"n", "o", "n", "e">>)>>)

\* a document with every field of the schema the system message asks for
ResultDoc(error_analysis, environment, screenshot_breakdown, confidence) ==
    PyDict(<<K_SCREENSHOTS_ANALYSED, K_EXTRACTED_TEXT, K_ERROR_ANALYSIS, K_ENVIRONMENT,
             K_SCREENSHOT_BREAKDOWN, K_SOLUTION, K_CONFIDENCE>>,
           <<PyInt(3), PyStr(<<"N", "u", "l", "l", "P", "o", "i", "n", "t", "e", "r", "E", "x", "c", "e", "p", "t", "i", "o", "n">>), error_analysis, environment,
             screenshot_breakdown, PyStr(<<"1", ".", " ", "C", "h", "e", "c", "k", " ", "n", "u", "l", "l", "\n", "2", ".", " ", "A", "d", "d", " ", "g", "u", "a", "r", "d">>), confidence>>)

WellFormedDocs == {ResultDoc(ERROR_ANALYSIS, ENVIRONMENT, Breakdown(o), PyFloat(82)) : o \in BreakdownOrders}

\* documents that are JSON but not an AnalysisResult
MalformedDocs ==
    {PyList(<<PyInt(1)>>),
     PyStr(<<"n", "o", " ", "e", "r", "r", "o", "r", " ", "f", "o", "u", "n", "d">>),
     ResultDoc(PyStr(<<"r", "u", "n", "t", "i", "m", "e">>), ENVIRONMENT, Breakdown(<<1, 2, 3>>), PyFloat(82)),
     ResultDoc(ERROR_ANALYSIS, PyNone, Breakdown(<<1, 2, 3>>), PyFloat(82)),
     ResultDoc(ERROR_ANALYSIS, ENVIRONMENT, PyList(<<DESCRIPTIONS[1]>>), PyFloat(82)),
     ResultDoc(ERROR_ANALYSIS, ENVIRONMENT, Breakdown(<<1, 2, 3>>), PyStr(<<"h", "i", "g", "h">>))}

NOT_JSON == PyStr(<<"S", "o", "r", "r", "y", ",", " ", "I", " ", "c", "a", "n", "n", "o", "t", " ", "h", "e", "l", "p">>)

AnalysisReplies ==
    {Raises(e) : e \in Errors}
    \cup {Returns(JsonText(d)) : d \in WellFormedDocs \cup MalformedDocs \cup {EmptyDict}}
    \cup {Returns(NOT_JSON), Returns(PyNone)}

Questions == {<<>>, <<" ", "\n">>, <<"w", "h", "y", "?">>, <<"h", "o", "w", " ", "t", "o", " ", "f", "i", "x", "?">>}

FollowupReplies ==
    {Raises(e) : e \in Errors} \cup {Returns(PyStr(<<"C", "h", "e", "c", "k", " ", "l", "i", "n", "e", " ", "4", "2", ".">>)), Returns(PyStr(<<>>)), Returns(PyNone)}

\* transcripts a follow-up call can be handed
Transcripts ==
    {INITIAL_TRANSCRIPT, <<>>, <<" ", "\n", " ">>, <<"h", "e", "l", "l", "o">>, <<" ", "\n", "n", "o", "t", "e", "\n">>,
     NewExchange(<<"w", "h", "y", "?">>, PyStr(<<"b", "e", "c", "a", "u", "s", "e">>))}

\* the most exchanges a session's transcript is let grow to
MaxExchanges == 3

(***************************************************************************)
(* The session: the components the two handlers read and write             *)
(***************************************************************************)
VARIABLES
    analysis_output,        \* gr.Markdown: the rendered analysis
    analysis_json,          \* gr.State: the stored analysis result
    conversation_history,   \* gr.Markdown: the transcript
    question_input,         \* gr.Textbox: receives a follow-up's status message
    pc,                     \* "idle", or "analysing" between the two yields
    pending,                \* the arguments of the submission being analysed
    asked,                  \* the inputs of the follow-up whose handler is running
    last_call,              \* the last handler step: its inputs and how it ended
    exchanges,              \* the exchange blocks of the successful follow-ups
    last_success            \* the last non-None result analyse_screenshots returned

vars == <<analysis_output, analysis_json, conversation_history, question_input, pc, pending,
          asked, last_call, exchanges, last_success>>

NoReply == [kind |-> "none"]

NoPending == [prompt |-> <<>>, files |-> PyNone, api_key |-> PyNone]

NoFollowup ==
    [running |-> FALSE, user_question |-> <<>>, conversation_history |-> <<>>,
     analysis_data |-> PyNone, api_key |-> PyNone]

NoCall ==
    [op |-> "none", final |-> TRUE, files |-> PyNone, api_key |-> PyNone, question |-> <<>>,
     history_in |-> <<>>, reply |-> NoReply, raised |-> FALSE, answered |-> FALSE, requests |-> <<>>]

Init ==
    /\ analysis_output = <<>>
    /\ analysis_json = PyNone
    /\ conversation_history = INITIAL_TRANSCRIPT
    /\ question_input = <<>>
    /\ pc = "idle"
    /\ pending = NoPending
    /\ asked = NoFollowup
    /\ last_call = NoCall
    /\ exchanges = <<>>
    /\ last_success = PyNone

\* analyse_with_loading up to its first yield; both outputs are written
AnalyseSubmit(prompts, file_lists, keys) ==
    /\ pc = "idle"
    /\ \E prompt \in prompts, files \in file_lists, api_key \in keys :
        /\ IF InvalidKey(api_key)
           THEN /\ analysis_output' = MSG_WRAPPER_INVALID_KEY
                /\ pc' = "idle"
                /\ pending' = NoPending
           ELSE /\ analysis_output' = MSG_ANALYSING
                /\ pc' = "analysing"
                /\ pending' = [prompt |-> prompt, files |-> files, api_key |-> api_key]
        /\ analysis_json' = PyNone
        /\ last_call' = [NoCall EXCEPT !.op = "analyse", !.final = InvalidKey(api_key),
                                       !.files = files, !.api_key = api_key]
    /\ UNCHANGED <<conversation_history, question_input, asked, exchanges, last_success>>

\* analyse_with_loading from the call of analyse_screenshots to its last yield;
\* an exception leaves the outputs as the first yield wrote them
AnalyseYield(replies) ==
    /\ pc = "analysing"
    /\ \E reply \in replies :
        LET r == analyse_screenshots(pending.prompt, pending.files, pending.api_key, reply)
        IN  /\ IF r.raised
               THEN UNCHANGED <<analysis_output, analysis_json>>
               ELSE /\ analysis_output' = r.text
                    /\ analysis_json' = r.data
            /\ last_success' = IF ~r.raised /\ r.data # PyNone THEN r.data ELSE last_success
            /\ last_call' = [NoCall EXCEPT !.op = "analyse", !.files = pending.files,
                                           !.api_key = pending.api_key,
                                           !.reply = IF r.requests = <<>> THEN NoReply ELSE reply,
                                           !.raised = r.raised, !.requests = r.requests]
    /\ pc' = "idle"
    /\ pending' = NoPending
    /\ UNCHANGED <<conversation_history, question_input, asked, exchanges>>

\* the click of Submit: the handler is started on the values the four input
\* components hold now; a second click while it runs starts nothing
FollowupSubmit(questions, keys) ==
    /\ ~asked.running
    /\ \E user_question \in questions, api_key \in keys :
        asked' = [running |-> TRUE, user_question |-> user_question,
                  conversation_history |-> conversation_history,
                  analysis_data |-> analysis_json, api_key |-> api_key]
    /\ UNCHANGED <<analysis_output, analysis_json, conversation_history, question_input, pc, pending,
                   last_call, exchanges, last_success>>

\* followup_with_api_key on the values read at the click, to the write of its two
\* outputs; the model call in between lets the other handler run; an exception
\* leaves both outputs as they were
FollowupReturn(replies) ==
    /\ asked.running
    /\ \E reply \in replies :
        LET r == followup_with_api_key(asked.user_question, asked.conversation_history,
                                       asked.analysis_data, asked.api_key, reply)
        IN  /\ r.answered => Len(exchanges) < MaxExchanges
            /\ IF r.raised
               THEN UNCHANGED <<conversation_history, question_input>>
               ELSE /\ conversation_history' = r.transcript
                    /\ question_input' = r.status
            /\ exchanges' = IF r.answered THEN Append(exchanges, NewExchange(asked.user_question, reply.content))
                            ELSE exchanges
            /\ last_call' = [NoCall EXCEPT !.op = "followup", !.api_key = asked.api_key,
                                           !.question = asked.user_question,
                                           !.history_in = asked.conversation_history,
                                           !.reply = IF r.requests = <<>> THEN NoReply ELSE reply,
                                           !.raised = r.raised, !.answered = r.answered,
                                           !.requests = r.requests]
    /\ asked' = NoFollowup
    /\ UNCHANGED <<analysis_output, analysis_json, pc, pending, last_success>>

\* a session of several operations, on a few of the inputs of each
Next ==
    \/ AnalyseSubmit({<<>>}, {PyList(<<>>), PyList(<<FILE_A>>), PyList(<<FILE_GONE>>)}, {KEY_BAD, KEY_GOOD})
    \/ AnalyseYield({Raises(ERR_CONNECTION), Returns(NOT_JSON), Returns(JsonText(PyList(<<PyInt(1)>>))),
                     Returns(JsonText(ResultDoc(ERROR_ANALYSIS, ENVIRONMENT, Breakdown(<<1, 2, 3>>), PyFloat(82))))})
    \/ FollowupSubmit({<<" ", "\n">>, <<"w", "h", "y", "?">>}, {KEY_BAD, KEY_GOOD})
    \/ FollowupReturn({Raises(ERR_RATE), Returns(PyStr(<<"C", "h", "e", "c", "k", " ", "l", "i", "n", "e", " ", "4", "2", ".">>)), Returns(PyNone)})

\* one user session, from the construction of the interface
Spec == Init /\ [][Next]_vars

NextAnalyse ==
    \/ last_call.op = "none" /\ AnalyseSubmit(Prompts, FileLists, ApiKeys)
    \/ AnalyseYield(AnalysisReplies)

\* one analysis submission, on every input, from the construction of the interface
SpecAnalyse == Init /\ [][NextAnalyse]_vars

\* results analyse_screenshots can have left in the session
StoredResults ==
    {PyNone, EmptyDict, PyList(<<PyInt(1)>>),
     ResultDoc(ERROR_ANALYSIS, ENVIRONMENT, Breakdown(<<1, 2, 3>>), PyFloat(82))}

InitCall ==
    /\ analysis_output = <<>>
    /\ analysis_json \in StoredResults
    /\ conversation_history \in Transcripts
    /\ question_input = <<>>
    /\ pc = "idle"
    /\ pending = NoPending
    /\ asked = NoFollowup
    /\ last_call = NoCall
    /\ exchanges = <<>>
    /\ last_success = analysis_json

NextCall ==
    \/ last_call.op = "none" /\ ~asked.running /\ AnalyseSubmit(Prompts, FileLists, ApiKeys)
    \/ AnalyseYield(AnalysisReplies)
    \/ last_call.op = "none" /\ pc = "idle" /\ FollowupSubmit(Questions, ApiKeys)
    \/ FollowupReturn(FollowupReplies)

\* one operation, on every input, from every stored result and transcript it can
\* be handed
SpecCall == InitCall /\ [][NextCall]_vars

(***************************************************************************)
(* Properties                                                              *)
(***************************************************************************)
AnalysisDone == last_call.op = "analyse" /\ last_call.final /\ ~last_call.raised

FollowupDone == last_call.op = "followup" /\ ~last_call.raised

\* C1: once the session slot holds a successfully parsed result, it keeps the
\* last successful analysis: no failed analysis and no interim "Analysing..."
\* phase changes it.
C1_SlotKeepsLastSuccess == last_success \in WellFormedDocs => analysis_json = last_success

\* C2: a submission with no attachments ends with the "no screenshots" message,
\* an absent result and no model call, whatever the credential is.
C2_NoScreenshotsFirst ==
    (last_call.op = "analyse" /\ last_call.final /\ ~Truthy(last_call.files)) =>
        /\ analysis_output = MSG_NO_SCREENSHOTS
        /\ analysis_json = PyNone
        /\ last_call.requests = <<>>

\* C3: a follow-up that does not succeed (blank question, credential rejected,
\* model call raised) returns the transcript it was passed and a non-empty
\* status; the transcript changes only on a model response, with an empty status.
C3_FailureKeepsTranscript ==
    FollowupDone =>
        /\ (Len(Strip(last_call.question)) = 0 \/ InvalidKey(last_call.api_key) \/ last_call.reply.kind = "raise") =>
              (conversation_history = last_call.history_in /\ question_input # <<>>)
        /\ conversation_history # last_call.history_in => last_call.reply.kind = "content"
        /\ last_call.reply.kind = "content" =>
              (question_input = <<>> /\ conversation_history # last_call.history_in)

C3_Witness ==
    /\ FollowupDone
    /\ last_call.reply.kind = "raise"
    /\ StartsWith(last_call.history_in, YOU_PREFIX)
    /\ conversation_history = last_call.history_in

\* the exchange block of the last follow-up, as the claim writes it
LastExchange == YOU_PREFIX \o last_call.question \o ASSISTANT_SEP \o Text(last_call.reply.content)

\* C4 as claimed: after a successful follow-up on any non-empty transcript T other
\* than the sentinel, whitespace-only T included, the transcript is T + "\n\n" + E.
C4_AppendsToEveryNonEmpty ==
    (FollowupDone /\ last_call.reply.kind = "content"
        /\ Len(last_call.history_in) > 0 /\ last_call.history_in # SENTINEL) =>
        conversation_history = last_call.history_in \o BLANK_LINE \o LastExchange

\* C4 as amended: after a successful follow-up on a transcript T other than the
\* sentinel, the transcript is T + "\n\n" + E when T has a non-whitespace
\* character, and E alone when T is empty or only whitespace.
C4_AppendsToNonBlank ==
    (FollowupDone /\ last_call.reply.kind = "content" /\ last_call.history_in # SENTINEL) =>
        conversation_history =
            IF \E i \in 1..Len(last_call.history_in) : ~IsSpace(last_call.history_in[i])
            THEN last_call.history_in \o BLANK_LINE \o LastExchange
            ELSE LastExchange

C4_Witness ==
    /\ FollowupDone
    /\ last_call.reply.kind = "content"
    /\ Len(last_call.history_in) > 0
    /\ \A i \in 1..Len(last_call.history_in) : IsSpace(last_call.history_in[i])
    /\ conversation_history = LastExchange

\* C5: every path through the analysis and the follow-up operation returns a
\* displayable pair; none ends in an exception that leaves the function.
C5_NoUnhandledFault == ~last_call.raised

\* C6: a model response that is not JSON, or is JSON that is not a well-formed
\* AnalysisResult, leaves the analysis with an absent result.
C6_MalformedIsAbsent ==
    (AnalysisDone /\ last_call.reply.kind = "content"
        /\ (last_call.reply.content.t # "json" \/ last_call.reply.content.value \in MalformedDocs)) =>
        analysis_json = PyNone

\* where the rendered output has the line of screenshot n, 0 when it has none
ScreenshotLineAt(n) == Find(analysis_output, LINE_OPEN \o Decimal(n) \o LINE_MID)

\* C7: for a result whose breakdown has screenshot_1..screenshot_3, the rendered
\* output lists the three lines in the order 1, 2, 3 whatever the order of the keys.
C7_BreakdownAscending ==
    (AnalysisDone /\ last_call.reply.kind = "content" /\ analysis_json \in WellFormedDocs) =>
        /\ 0 < ScreenshotLineAt(1)
        /\ ScreenshotLineAt(1) < ScreenshotLineAt(2)
        /\ ScreenshotLineAt(2) < ScreenshotLineAt(3)

\* C8: a raised model error is classified by its description: "API key" (case
\* sensitive) gives the credential message, even with "rate limit" in it too;
\* otherwise "rate limit" in any case gives the rate-limit message; otherwise the
\* generic message with the error text in it; the analysis result is absent.
C8_ErrorClassification ==
    (~last_call.raised /\ last_call.reply.kind = "raise") =>
        LET e == last_call.reply.e
            credential == Contains(e, API_KEY_MARK)
            rate == ~credential /\ Contains(Lower(e), RATE_LIMIT_MARK)
        IN  IF last_call.op = "analyse"
            THEN /\ analysis_json = PyNone
                 /\ credential => analysis_output = MSG_CONNECTION_ERROR
                 /\ rate => analysis_output = MSG_RATE_LIMIT_ERROR
                 /\ (~credential /\ ~rate) =>
                        /\ StartsWith(analysis_output, MSG_ANALYSIS_FAILED)
                        /\ Contains(analysis_output, e)
            ELSE /\ credential => question_input = MSG_FOLLOWUP_CONNECTION
                 /\ rate => question_input = MSG_FOLLOWUP_RATE_LIMIT
                 /\ (~credential /\ ~rate) =>
                        /\ StartsWith(question_input, MSG_FOLLOWUP_ERROR)
                        /\ Contains(question_input, e)

C8_Witness ==
    /\ last_call.op = "analyse"
    /\ last_call.reply = Raises(ERR_AUTH_AND_RATE)
    /\ analysis_output = MSG_CONNECTION_ERROR

\* C9: every model request of the analysis has one text part followed by at least
\* one image part, as many image parts as the screenshot count it states, in the
\* order of the attachments.
C9_RequestShape ==
    (last_call.op = "analyse" /\ last_call.requests # <<>>) =>
        LET request == last_call.requests[1]
            content == request.user_content
            present == PresentFiles(last_call.files)
        IN  /\ Len(content) >= 2
            /\ content[1].type = "text"
            /\ \A i \in 2..Len(content) : content[i].type = "image_url"
            /\ Len(content) - 1 = request.screenshots
            /\ \A i \in 2..Len(content) : content[i].url = DATA_URL_PREFIX \o b64encode(present[i - 1].bytes)

RECURSIVE JoinBlocks(_)
\* the blocks, each separated from the next by a blank line
JoinBlocks(blocks) ==
    IF Len(blocks) = 1 THEN blocks[1]
    ELSE JoinBlocks(SubSeq(blocks, 1, Len(blocks) - 1)) \o <<"\n", "\n">> \o blocks[Len(blocks)]

\* the transcript that shows exactly these exchange blocks
TranscriptOf(blocks) == IF blocks = <<>> THEN INITIAL_TRANSCRIPT ELSE JoinBlocks(blocks)

\* C10: from the sentinel on, the transcript is append-only: once the first
\* exchange has replaced the sentinel every step extends the transcript it had,
\* and the transcript is always the blocks of the successful follow-ups so far,
\* in order, nothing else.
C10_AppendOnly ==
    [][/\ conversation_history # INITIAL_TRANSCRIPT => StartsWith(conversation_history', conversation_history)
       /\ conversation_history' = TranscriptOf(exchanges')]_vars

C10_Witness ==
    /\ Len(exchanges) = 3
    /\ last_call.op = "followup"
    /\ ~last_call.answered
    /\ conversation_history = JoinBlocks(exchanges)

====
